---------------------------- MODULE Spec2Model ----------------------------
(***************************************************************************)
(* A model of the notebook-to-project converter (MLOps_converter):         *)
(* NotebookParser, DependencyAnalyzer, CodeGenerator and the convert       *)
(* command of the CLI.                                                     *)
(*                                                                         *)
(* Text is modelled as a sequence of one-character strings, so that        *)
(* substring tests, lower(), strip(), split() and join() are computed      *)
(* character by character, as Python computes them.                        *)
(***************************************************************************)
EXTENDS Integers, Sequences, FiniteSets, TLC

VARIABLES
    notebook,   \* the notebook document given to parse_notebook
    parsed,     \* what parse_notebook returned: <<result>>, or <<>> before and on error
    raised,     \* the exception the last call raised ("none" when it returned)
    code,       \* the source text given to _extract_imports / _extract_imports_regex
    imports,    \* what _extract_imports returned: <<set>>, or <<>> before the call
    path,       \* which extraction path produced `imports`
    fallback,   \* what _extract_imports_regex returned: <<set>>, or <<>> before the call
    report,     \* what analyze_dependencies returned: <<report>>, or <<>> before the call
    run,        \* the invocation of the convert command: its options and its environment
    pc,         \* the stage the convert command has reached ("idle" outside the command)
    files,      \* the paths (directories and files) that exist under the output directory
    generated   \* what generate_python_files wrote and returned: <<result>>, or <<>> before the call

vars == <<notebook, parsed, raised, code, imports, path, fallback, report,
          run, pc, files, generated>>

parseVars == <<notebook, parsed, raised>>
extractVars == <<code, imports, path, fallback>>
convertVars == <<run, pc, files, generated>>

(***************************************************************************)
(* Bounds of the model.                                                    *)
(***************************************************************************)
MaxFrags == 2   \* fragments per cell source in the classification inputs
MaxCells == 2   \* cells per notebook in the document-level inputs
MaxLines == 2   \* lines per source in the import-extraction inputs
MaxGenCells == 3 \* cells per notebook in the module-generation inputs
MaxNesting == 3 \* expression depth ast.parse can build (CPython: about 3000), scaled down

(***************************************************************************)
(* Text primitives (Python str operations).                                *)
(***************************************************************************)
Whitespace == {" ", "\n", "\t"}

LowerMap ==
    [A |-> "a", B |-> "b", C |-> "c", D |-> "d", E |-> "e", F |-> "f",
     G |-> "g", H |-> "h", I |-> "i", J |-> "j", K |-> "k", L |-> "l",
     M |-> "m", N |-> "n", O |-> "o", P |-> "p", Q |-> "q", R |-> "r",
     S |-> "s", T |-> "t", U |-> "u", V |-> "v", W |-> "w", X |-> "x",
     Y |-> "y", Z |-> "z"]

\* str.lower()
Lower(s) ==
    [i \in 1..Len(s) |-> IF s[i] \in DOMAIN LowerMap THEN LowerMap[s[i]] ELSE s[i]]

\* p in s
Contains(s, p) ==
    \E i \in 0..(Len(s) - Len(p)) : SubSeq(s, i + 1, i + Len(p)) = p

\* s.startswith(p)
StartsWith(s, p) ==
    /\ Len(p) <= Len(s)
    /\ SubSeq(s, 1, Len(p)) = p

\* s.strip()
Strip(s) ==
    LET keep == {i \in 1..Len(s) : s[i] \notin Whitespace}
    IN  IF keep = {} THEN <<>>
        ELSE LET lo == CHOOSE i \in keep : \A j \in keep : i <= j
                 hi == CHOOSE i \in keep : \A j \in keep : j <= i
             IN  SubSeq(s, lo, hi)

\* ''.join(parts)
RECURSIVE Join(_)
Join(parts) ==
    IF parts = <<>> THEN <<>> ELSE Head(parts) \o Join(Tail(parts))

\* any(p in s for p in patterns)
ContainsAny(s, patterns) ==
    \E k \in 1..Len(patterns) : Contains(s, patterns[k])

(***************************************************************************)
(* NotebookParser: the keyword lists of the two categorizers.              *)
(***************************************************************************)
ImportKeywords ==
    <<<<"i","m","p","o","r","t">>,
      <<"f","r","o","m"," ">>>>

DefinitionKeywords ==
    <<<<"d","e","f"," ">>,
      <<"c","l","a","s","s"," ">>,
      <<"f","u","n","c","t","i","o","n">>>>

TrainingKeywords ==
    <<<<"m","o","d","e","l">>,
      <<"t","r","a","i","n">>,
      <<"f","i","t">>,
      <<"c","o","m","p","i","l","e">>>>

PlotKeywords ==
    <<<<"p","l","o","t">>,
      <<"v","i","s","u","a","l","i","z","e">>,
      <<"p","l","t",".">>,
      <<"s","e","a","b","o","r","n">>>>

ProcessingKeywords ==
    <<<<"p","r","e","p","r","o","c","e","s","s">>,
      <<"c","l","e","a","n">>,
      <<"t","r","a","n","s","f","o","r","m">>>>

TestingKeywords ==
    <<<<"t","e","s","t">>,
      <<"a","s","s","e","r","t">>,
      <<"c","h","e","c","k">>>>

IntroductionHeadings ==
    <<<<"#"," ","i","n","t","r","o","d","u","c","t","i","o","n">>,
      <<"#"," ","o","v","e","r","v","i","e","w">>,
      <<"#"," ","a","b","s","t","r","a","c","t">>>>

SetupHeadings ==
    <<<<"#"," ","s","e","t","u","p">>,
      <<"#"," ","i","n","s","t","a","l","l","a","t","i","o","n">>,
      <<"#"," ","r","e","q","u","i","r","e","m","e","n","t","s">>>>

DataHeadings ==
    <<<<"#"," ","d","a","t","a">>,
      <<"#"," ","d","a","t","a","s","e","t">>,
      <<"#"," ","l","o","a","d","i","n","g">>>>

MethodHeadings ==
    <<<<"#"," ","m","e","t","h","o","d">>,
      <<"#"," ","a","p","p","r","o","a","c","h">>,
      <<"#"," ","m","e","t","h","o","d","o","l","o","g","y">>>>

ResultHeadings ==
    <<<<"#"," ","r","e","s","u","l","t">>,
      <<"#"," ","o","u","t","p","u","t">>,
      <<"#"," ","f","i","n","d","i","n","g">>>>

ConclusionHeadings ==
    <<<<"#"," ","c","o","n","c","l","u","s","i","o","n">>,
      <<"#"," ","s","u","m","m","a","r","y">>,
      <<"#"," ","d","i","s","c","u","s","s","i","o","n">>>>

(***************************************************************************)
(* NotebookParser._categorize_code_cell                                    *)
(***************************************************************************)
\* The same chain with the visualization test placed before the training
\* test (two elif branches exchanged).
CategorizeCodeCellSwapped(source) ==
    IF Strip(source) = <<>> THEN "empty"
    ELSE LET source_lower == Lower(source)
         IN  IF ContainsAny(source_lower, ImportKeywords) THEN "imports"
             ELSE IF ContainsAny(source_lower, DefinitionKeywords) THEN "function_definitions"
             ELSE IF ContainsAny(source_lower, PlotKeywords) THEN "visualization"
             ELSE IF ContainsAny(source_lower, TrainingKeywords) THEN "model_training"
             ELSE IF ContainsAny(source_lower, ProcessingKeywords) THEN "data_processing"
             ELSE IF ContainsAny(source_lower, TestingKeywords) THEN "testing"
             ELSE "general_code"

CategorizeCodeCell(source) ==
    IF Strip(source) = <<>> THEN "empty"
    ELSE LET source_lower == Lower(source)
         IN  IF ContainsAny(source_lower, ImportKeywords) THEN "imports"
             ELSE IF ContainsAny(source_lower, DefinitionKeywords) THEN "function_definitions"
             ELSE IF ContainsAny(source_lower, TrainingKeywords) THEN "model_training"
             ELSE IF ContainsAny(source_lower, PlotKeywords) THEN "visualization"
             ELSE IF ContainsAny(source_lower, ProcessingKeywords) THEN "data_processing"
             ELSE IF ContainsAny(source_lower, TestingKeywords) THEN "testing"
             ELSE "general_code"

(***************************************************************************)
(* NotebookParser._categorize_markdown_cell                                *)
(***************************************************************************)
\* The same chain with the section_header test placed first.
CategorizeMarkdownCellHeaderFirst(source) ==
    IF Strip(source) = <<>> THEN "empty"
    ELSE LET source_lower == Lower(source)
         IN  IF StartsWith(source_lower, <<"#">>) \/ Contains(source_lower, <<"#","#">>)
                 THEN "section_header"
             ELSE IF ContainsAny(source_lower, IntroductionHeadings) THEN "introduction"
             ELSE IF ContainsAny(source_lower, SetupHeadings) THEN "setup"
             ELSE IF ContainsAny(source_lower, DataHeadings) THEN "data_description"
             ELSE IF ContainsAny(source_lower, MethodHeadings) THEN "methodology"
             ELSE IF ContainsAny(source_lower, ResultHeadings) THEN "results"
             ELSE IF ContainsAny(source_lower, ConclusionHeadings) THEN "conclusion"
             ELSE "documentation"

CategorizeMarkdownCell(source) ==
    IF Strip(source) = <<>> THEN "empty"
    ELSE LET source_lower == Lower(source)
         IN  IF ContainsAny(source_lower, IntroductionHeadings) THEN "introduction"
             ELSE IF ContainsAny(source_lower, SetupHeadings) THEN "setup"
             ELSE IF ContainsAny(source_lower, DataHeadings) THEN "data_description"
             ELSE IF ContainsAny(source_lower, MethodHeadings) THEN "methodology"
             ELSE IF ContainsAny(source_lower, ResultHeadings) THEN "results"
             ELSE IF ContainsAny(source_lower, ConclusionHeadings) THEN "conclusion"
             ELSE IF StartsWith(source_lower, <<"#">>) \/ Contains(source_lower, <<"#","#">>)
                 THEN "section_header"
             ELSE "documentation"

(***************************************************************************)
(* JSON objects: a record with a `keys` field naming the keys present.     *)
(***************************************************************************)
\* dict.get(key, default)
Get(d, key, default) == IF key \in d.keys THEN d[key] ELSE default

\* A cell source as JSON holds it: one string, or a list of string fragments.
StrSource(text) == [form |-> "str", parts |-> <<text>>]
ListSource(fragments) == [form |-> "list", parts |-> fragments]

\* An empty JSON object.
NoMetadata == [keys |-> {}]

RawCell(keys, cell_type, source, metadata, outputs) ==
    [keys |-> keys, cell_type |-> cell_type, source |-> source,
     metadata |-> metadata, outputs |-> outputs]

Categories ==
    {"empty", "imports", "function_definitions", "model_training",
     "visualization", "data_processing", "testing", "general_code",
     "introduction", "setup", "data_description", "methodology", "results",
     "conclusion", "section_header", "documentation", "other"}

(***************************************************************************)
(* NotebookParser._extract_cells                                           *)
(***************************************************************************)
\* source normalization: ''.join(source_parts) for a list, str() otherwise
NormalizeSourceNewlines(source_parts) ==
    IF source_parts.form = "list"
        THEN Join([i \in 1..Len(source_parts.parts) |->
                     IF i < Len(source_parts.parts)
                         THEN source_parts.parts[i] \o <<"\n">>
                         ELSE source_parts.parts[i]])
        ELSE source_parts.parts[1]

NormalizeSource(source_parts) ==
    IF source_parts.form = "list"
        THEN Join(source_parts.parts)
        ELSE source_parts.parts[1]

\* the category branch of the loop body
CategoryOfAsCode(cell_type, source) ==
    IF cell_type = "markdown" THEN CategorizeMarkdownCell(source)
    ELSE CategorizeCodeCell(source)

CategoryOf(cell_type, source) ==
    IF cell_type = "code" THEN CategorizeCodeCell(source)
    ELSE IF cell_type = "markdown" THEN CategorizeMarkdownCell(source)
    ELSE "other"

\* the parsed_cell with the outputs kept whatever the cell kind is
ParsedCellKeepingOutputs(cell) ==
    LET cell_type == Get(cell, "cell_type", "code")
        source    == NormalizeSource(Get(cell, "source", ListSource(<<>>)))
    IN  [cell_type |-> cell_type,
         source    |-> source,
         metadata  |-> Get(cell, "metadata", NoMetadata),
         outputs   |-> Get(cell, "outputs", <<>>),
         category  |-> CategoryOf(cell_type, source)]

\* one iteration of the loop: the parsed_cell built from `cell`
ParsedCell(cell) ==
    LET cell_type == Get(cell, "cell_type", "code")
        source    == NormalizeSource(Get(cell, "source", ListSource(<<>>)))
    IN  [cell_type |-> cell_type,
         source    |-> source,
         metadata  |-> Get(cell, "metadata", NoMetadata),
         outputs   |-> IF cell_type = "code" THEN Get(cell, "outputs", <<>>) ELSE <<>>,
         category  |-> CategoryOf(cell_type, source)]

\* the loop that skips cells whose source is blank
RECURSIVE ExtractCellsSkippingBlank(_)
ExtractCellsSkippingBlank(cells) ==
    IF cells = <<>> THEN <<>>
    ELSE IF Strip(ParsedCell(Head(cells)).source) = <<>>
        THEN ExtractCellsSkippingBlank(Tail(cells))
        ELSE <<ParsedCell(Head(cells))>> \o ExtractCellsSkippingBlank(Tail(cells))

RECURSIVE ExtractCells(_)
ExtractCells(cells) ==
    IF cells = <<>> THEN <<>>
    ELSE <<ParsedCell(Head(cells))>> \o ExtractCells(Tail(cells))

(***************************************************************************)
(* NotebookParser._extract_kernel_info                                     *)
(***************************************************************************)
ExtractKernelInfo(metadata) ==
    IF "kernelspec" \in metadata.keys THEN
        LET kernelspec == metadata.kernelspec
        IN  [k \in {"name", "display_name", "language"} |->
               IF k = "language" THEN Get(kernelspec, k, "python")
               ELSE Get(kernelspec, k, "unknown")]
    ELSE IF "language_info" \in metadata.keys THEN
        LET language_info == metadata.language_info
        IN  [k \in {"name", "version"} |->
               IF k = "name" THEN Get(language_info, k, "python")
               ELSE Get(language_info, k, "unknown")]
    ELSE <<>>

(***************************************************************************)
(* NotebookParser.parse_notebook                                           *)
(***************************************************************************)
SupportedVersionsWithOlder == {2, 3, 4, 5}

SupportedVersions == {4, 5}

\* The call with no default for nbformat: a document without the field is
\* rejected like one of an unsupported version.
ParseNotebookOutcomeVersionRequired(nb) ==
    IF ~nb.decodable \/ Get(nb, "nbformat", 0) \notin SupportedVersions
        THEN [raised |-> "ValueError", value |-> <<>>]
    ELSE [raised |-> "none",
          value  |-> <<[metadata    |-> Get(nb, "metadata", NoMetadata),
                        cells       |-> ExtractCells(Get(nb, "cells", <<>>)),
                        kernel_info |-> ExtractKernelInfo(
                                          Get(nb, "metadata", NoMetadata))]>>]

\* What the call does with the file `nb`: the exception it raises, and the
\* value it returns (a sequence holding the returned mapping, empty when it
\* raised).
ParseNotebookOutcome(nb) ==
    IF ~nb.decodable
        THEN [raised |-> "ValueError", value |-> <<>>]
    ELSE LET nb_version == Get(nb, "nbformat", 4)
         IN  IF nb_version \notin SupportedVersions
                 THEN [raised |-> "ValueError", value |-> <<>>]
             ELSE [raised |-> "none",
                   value  |-> <<[metadata    |-> Get(nb, "metadata", NoMetadata),
                                 cells       |-> ExtractCells(Get(nb, "cells", <<>>)),
                                 kernel_info |-> ExtractKernelInfo(
                                                   Get(nb, "metadata", NoMetadata))]>>]

(***************************************************************************)
(* Inputs.  The notebook file: whether json.load can decode it, and the    *)
(* decoded root object.                                                    *)
(***************************************************************************)
Notebook(decodable, keys, nbformat, metadata, cells) ==
    [decodable |-> decodable, keys |-> keys, nbformat |-> nbformat,
     metadata |-> metadata, cells |-> cells]

\* All sequences of at most n elements of S.
SeqsUpTo(S, n) == UNION {[1..k -> S] : k \in 0..n}

CodeFragments ==
    {<<"i","m","p","o","r","t"," ">>,
     <<"F","r","o","m">>,
     <<" ">>,
     <<"\n">>,
     <<"d","e","f"," ">>,
     <<"C","l","a","s","s"," ">>,
     <<"f","u","n","c","t","i","o","n">>,
     <<"m","o","d","e","l">>,
     <<"T","R","A","I","N">>,
     <<"f","i","t">>,
     <<"c","o","m","p","i","l","e">>,
     <<"p","l","o","t">>,
     <<"v","i","s","u","a","l","i","z","e">>,
     <<"p","l","t",".">>,
     <<"s","e","a","b","o","r","n">>,
     <<"p","r","e","p","r","o","c","e","s","s">>,
     <<"c","l","e","a","n">>,
     <<"t","r","a","n","s","f","o","r","m">>,
     <<"t","e","s","t">>,
     <<"a","s","s","e","r","t">>,
     <<"c","h","e","c","k">>,
     <<"x"," ","="," ","1">>,
     <<"i","m","p","o","r","t"," ","o","s","\n">>,
     <<"i","m","p","o","r","t"," ","s","y","s">>}

MarkdownFragments ==
    {<<"#"," ","I","n","t","r","o","d","u","c","t","i","o","n">>,
     <<"#"," ","o","v","e","r","v","i","e","w">>,
     <<"#"," ","a","b","s","t","r","a","c","t">>,
     <<"#"," ","S","e","t","u","p">>,
     <<"#"," ","i","n","s","t","a","l","l","a","t","i","o","n">>,
     <<"#"," ","r","e","q","u","i","r","e","m","e","n","t","s">>,
     <<"#"," ","D","a","t","a">>,
     <<"#"," ","l","o","a","d","i","n","g">>,
     <<"#"," ","M","e","t","h","o","d">>,
     <<"#"," ","a","p","p","r","o","a","c","h">>,
     <<"#"," ","R","e","s","u","l","t">>,
     <<"#"," ","o","u","t","p","u","t">>,
     <<"#"," ","f","i","n","d","i","n","g">>,
     <<"#"," ","C","o","n","c","l","u","s","i","o","n">>,
     <<"#"," ","s","u","m","m","a","r","y">>,
     <<"#"," ","d","i","s","c","u","s","s","i","o","n">>,
     <<"#">>,
     <<"#"," ","N","o","t","e","s">>,
     <<"#","#"," ","s","u","b">>,
     <<"t","e","x","t">>,
     <<"t","e","x","t","\n">>,
     <<" ">>,
     <<"\n">>}

OtherFragments ==
    {<<"i","m","p","o","r","t"," ","o","s">>,
     <<"#"," ","S","e","t","u","p">>,
     <<" ">>}

AllCellKeys == {"cell_type", "source", "metadata", "outputs"}

\* The two JSON forms of the text made of `fragments`.
SourceForms(fragments) == {ListSource(fragments), StrSource(Join(fragments))}

\* The raw cells of the classification inputs: every kind, with its source
\* made of at most MaxFrags fragments, in both JSON forms.  A cell without
\* a cell_type key is read as a code cell.
ClassifyKinds == {"code", "absent", "markdown", "raw"}

FragmentsOf(kind) ==
    IF kind \in {"code", "absent"} THEN CodeFragments
    ELSE IF kind = "markdown" THEN MarkdownFragments
    ELSE OtherFragments

ClassifyCell(kind, form, fragments) ==
    RawCell(IF kind = "absent" THEN AllCellKeys \ {"cell_type"} ELSE AllCellKeys,
            IF kind = "absent" THEN "code" ELSE kind,
            IF form = "list" THEN ListSource(fragments) ELSE StrSource(Join(fragments)),
            NoMetadata, <<>>)

AllNotebookKeys == {"nbformat", "metadata", "cells"}

NoReport == <<>>

\* No extraction call has been made.
ExtractIdle ==
    /\ code = <<>>
    /\ imports = <<>>
    /\ path = "none"
    /\ fallback = <<>>

\* The options and the environment of a run of the convert command.
Run(exists, create_structure, analyze_deps, generate_config, setup_vcs, setup_dvc, setup_ci, git, dvc, git_exists) ==
    [exists |-> exists, create_structure |-> create_structure,
     analyze_deps |-> analyze_deps, generate_config |-> generate_config,
     setup_vcs |-> setup_vcs, setup_dvc |-> setup_dvc, setup_ci |-> setup_ci,
     git |-> git, dvc |-> dvc, git_exists |-> git_exists]

NoRun == Run(FALSE, FALSE, FALSE, FALSE, FALSE, FALSE, FALSE, "ok", "ok", FALSE)

\* The convert command is not running.
ConvertIdle ==
    /\ run = NoRun
    /\ pc = "idle"
    /\ files = {}
    /\ generated = <<>>

InitClassify ==
    /\ \E kind \in ClassifyKinds, form \in {"list", "str"}, k \in 0..MaxFrags :
          \E fragments \in [1..k -> FragmentsOf(kind)] :
             notebook = Notebook(TRUE, AllNotebookKeys, 4, NoMetadata,
                                 <<ClassifyCell(kind, form, fragments)>>)
    /\ parsed = <<>>
    /\ raised = "none"
    /\ ExtractIdle
    /\ report = NoReport
    /\ ConvertIdle

(***************************************************************************)
(* Actions.                                                                *)
(***************************************************************************)
\* parser.parse_notebook(notebook_path), called once on the file
ParseNotebook ==
    /\ parsed = <<>>
    /\ raised = "none"
    /\ LET outcome == ParseNotebookOutcome(notebook)
       IN  /\ parsed' = outcome.value
           /\ raised' = outcome.raised
    /\ UNCHANGED <<notebook, extractVars, report, convertVars>>

NextParse == ParseNotebook

SpecClassify == InitClassify /\ [][NextParse]_vars

(***************************************************************************)
(* Claims about source normalization and classification (SpecClassify).    *)
(***************************************************************************)
\* The parsed cells, when parse_notebook has returned.
ParsedCells == IF parsed = <<>> THEN <<>> ELSE parsed[1].cells

\* The raw source of input cell i.
RawSource(i) == Get(notebook.cells[i], "source", ListSource(<<>>))

\* The number of characters of the fragments before fragment k.
RECURSIVE Offset(_, _)
Offset(parts, k) ==
    IF k <= 1 THEN 0 ELSE Offset(parts, k - 1) + Len(parts[k - 1])

\* `text` holds the fragments one after the other and nothing else.
IsConcatenation(text, parts) ==
    /\ Len(text) = Offset(parts, Len(parts) + 1)
    /\ \A k \in 1..Len(parts) :
         SubSeq(text, Offset(parts, k) + 1, Offset(parts, k) + Len(parts[k])) = parts[k]

\* C3: a source given as a list of fragments normalizes to the fragments
\* concatenated in order with nothing inserted between them, and that text
\* given as one string normalizes to itself, so both forms give one source.
C3_FragmentsConcatenate ==
    \A i \in 1..Len(ParsedCells) :
        RawSource(i).form = "list" =>
            /\ IsConcatenation(ParsedCells[i].source, RawSource(i).parts)
            /\ NormalizeSource(StrSource(ParsedCells[i].source)) = ParsedCells[i].source

\* The fragments "import os\n", "import sys" were parsed to "import os\nimport sys".
C3_Witness ==
    /\ Len(ParsedCells) = 1
    /\ RawSource(1) = ListSource(<< <<"i","m","p","o","r","t"," ","o","s","\n">>,
                                    <<"i","m","p","o","r","t"," ","s","y","s">> >>)
    /\ ParsedCells[1].source =
         <<"i","m","p","o","r","t"," ","o","s","\n","i","m","p","o","r","t"," ","s","y","s">>

\* The rules of the code classifier in the order the claim gives them.
CodeRuleOrder ==
    << [category |-> "imports",              keywords |-> ImportKeywords],
       [category |-> "function_definitions", keywords |-> DefinitionKeywords],
       [category |-> "model_training",       keywords |-> TrainingKeywords],
       [category |-> "visualization",        keywords |-> PlotKeywords],
       [category |-> "data_processing",      keywords |-> ProcessingKeywords],
       [category |-> "testing",              keywords |-> TestingKeywords] >>

\* The rules (by position in `rules`) that the lower-cased text satisfies.
RulesMatched(rules, text) ==
    {r \in 1..Len(rules) : \E k \in 1..Len(rules[r].keywords) :
                              Contains(Lower(text), rules[r].keywords[k])}

IsBlank(text) == \A i \in 1..Len(text) : text[i] \in Whitespace

Least(S) == CHOOSE x \in S : \A y \in S : x <= y

\* C4: a code cell gets the category of the first rule, in the order empty,
\* imports, function_definitions, model_training, visualization,
\* data_processing, testing, that its lower-cased source satisfies, and
\* general_code when it satisfies none.
C4_CodeFirstMatchWins ==
    \A i \in 1..Len(ParsedCells) :
        ParsedCells[i].cell_type = "code" =>
            LET text == ParsedCells[i].source
                hits == RulesMatched(CodeRuleOrder, text)
            IN  ParsedCells[i].category =
                    IF IsBlank(text) THEN "empty"
                    ELSE IF hits = {} THEN "general_code"
                    ELSE CodeRuleOrder[Least(hits)].category

\* A code cell holding a training token and a plotting token was classified
\* model_training.
C4_Witness ==
    \E i \in 1..Len(ParsedCells) :
        /\ ParsedCells[i].cell_type = "code"
        /\ {3, 4} \subseteq RulesMatched(CodeRuleOrder, ParsedCells[i].source)
        /\ ParsedCells[i].category = "model_training"

\* The heading-vocabulary groups of the markdown classifier, in the order the
\* claim gives them.
MarkdownRuleOrder ==
    << [category |-> "introduction",     keywords |-> IntroductionHeadings],
       [category |-> "setup",            keywords |-> SetupHeadings],
       [category |-> "data_description", keywords |-> DataHeadings],
       [category |-> "methodology",      keywords |-> MethodHeadings],
       [category |-> "results",          keywords |-> ResultHeadings],
       [category |-> "conclusion",       keywords |-> ConclusionHeadings] >>

\* C5: a non-empty markdown cell that matches heading-vocabulary groups gets
\* the earliest matching group in the order introduction, setup,
\* data_description, methodology, results, conclusion; section_header and
\* documentation are given only when no group matches; a blank markdown
\* cell is empty.
C5_MarkdownFirstMatchWins ==
    \A i \in 1..Len(ParsedCells) :
        ParsedCells[i].cell_type = "markdown" =>
            LET text == ParsedCells[i].source
                hits == RulesMatched(MarkdownRuleOrder, text)
            IN  /\ IsBlank(text) <=> ParsedCells[i].category = "empty"
                /\ (~IsBlank(text) /\ hits # {}) =>
                       ParsedCells[i].category = MarkdownRuleOrder[Least(hits)].category
                /\ ParsedCells[i].category \in {"section_header", "documentation"} =>
                       hits = {}

\* A markdown cell matching the setup group and the data group was
\* classified setup.
C5_Witness ==
    \E i \in 1..Len(ParsedCells) :
        /\ ParsedCells[i].cell_type = "markdown"
        /\ {2, 3} \subseteq RulesMatched(MarkdownRuleOrder, ParsedCells[i].source)
        /\ ParsedCells[i].category = "setup"

(***************************************************************************)
(* Document-level inputs (SpecParse): notebooks of at most MaxCells cells  *)
(* drawn from a pool of raw cells that differ in kind, source form, keys   *)
(* present, metadata and outputs.                                          *)
(***************************************************************************)
TextImportOsSys ==
    <<"i","m","p","o","r","t"," ","o","s","\n","i","m","p","o","r","t"," ","s","y","s">>
TextSetup == <<"#"," ","S","e","t","u","p">>
TextData == <<"#"," ","D","a","t","a">>
TextImportOs == <<"i","m","p","o","r","t"," ","o","s">>
TextAssign == <<"x"," ","="," ","1">>
TextPlain == <<"t","e","x","t">>

TaggedMetadata == [keys |-> {"tags"}, tags |-> "hide"]

ParseCellPool ==
    { RawCell(AllCellKeys, "code",
              ListSource(<< <<"i","m","p","o","r","t"," ","o","s","\n">>,
                            <<"i","m","p","o","r","t"," ","s","y","s">> >>),
              NoMetadata, <<"stream">>),
      RawCell(AllCellKeys, "code", StrSource(TextImportOsSys), TaggedMetadata, <<>>),
      RawCell(AllCellKeys, "code", StrSource(<<" ","\n">>), NoMetadata, <<>>),
      RawCell({"cell_type"}, "code", ListSource(<<>>), NoMetadata, <<>>),
      RawCell({"source"}, "code", StrSource(TextAssign), NoMetadata, <<>>),
      RawCell(AllCellKeys, "code", StrSource(TextAssign), TaggedMetadata, <<"result">>),
      RawCell(AllCellKeys, "markdown", StrSource(TextSetup), NoMetadata, <<>>),
      RawCell(AllCellKeys, "markdown", ListSource(<<TextSetup>>), TaggedMetadata, <<"stream">>),
      RawCell(AllCellKeys, "markdown", StrSource(TextPlain), NoMetadata, <<>>),
      RawCell(AllCellKeys, "raw", StrSource(TextImportOs), NoMetadata, <<"stream">>),
      RawCell(AllCellKeys, "heading", StrSource(TextData), TaggedMetadata, <<>>) }

\* Notebook metadata: kernelspec and language_info, whole, partial or absent.
NotebookMetadataPool ==
    { NoMetadata,
      [keys |-> {"kernelspec"},
       kernelspec |-> [keys |-> {"name", "display_name", "language"},
                       name |-> "python3", display_name |-> "Python 3",
                       language |-> "python"]],
      [keys |-> {"kernelspec"},
       kernelspec |-> [keys |-> {"name"}, name |-> "ir"]],
      [keys |-> {"language_info"},
       language_info |-> [keys |-> {"name", "version"},
                          name |-> "python", version |-> "3.11"]],
      [keys |-> {"language_info"},
       language_info |-> [keys |-> {}]],
      [keys |-> {"kernelspec", "language_info"},
       kernelspec |-> [keys |-> {"display_name"}, display_name |-> "Python 3"],
       language_info |-> [keys |-> {"name", "version"},
                          name |-> "python", version |-> "3.11"]] }

\* The nbformat values tried (the key itself may also be missing).
NbformatPool == {2, 3, 4, 5}

\* A file json.load cannot decode: nothing of it is read.
UndecodableNotebook == Notebook(FALSE, {}, 0, NoMetadata, <<>>)

InitParse ==
    /\ \/ notebook = UndecodableNotebook
       \/ \E nbformat \in NbformatPool, metadata \in NotebookMetadataPool,
             k \in 0..MaxCells, missing \in SUBSET {"nbformat"} :
             \E cells \in [1..k -> ParseCellPool] :
                 notebook = Notebook(TRUE, AllNotebookKeys \ missing, nbformat,
                                     metadata, cells)
    /\ parsed = <<>>
    /\ raised = "none"
    /\ ExtractIdle
    /\ report = NoReport
    /\ ConvertIdle

SpecParse == InitParse /\ [][NextParse]_vars

(***************************************************************************)
(* Claims about parse_notebook (SpecParse).                                *)
(***************************************************************************)
\* parse_notebook has been called (it returned or it raised).
ParseCalled == parsed # <<>> \/ raised # "none"

\* Output cell i is the one derived from input cell i.
DerivedFrom(out, in) ==
    /\ out.cell_type = Get(in, "cell_type", "code")
    /\ LET src == Get(in, "source", ListSource(<<>>))
       IN  IF src.form = "list" THEN IsConcatenation(out.source, src.parts)
           ELSE out.source = src.parts[1]
    /\ out.metadata = Get(in, "metadata", NoMetadata)

\* C1: for a notebook whose nbformat is 4 or 5, parse_notebook returns as
\* many cells as the input has, the i-th derived from the i-th input cell,
\* each with one category of the category set.
C1_ParsingIsTotalAndOrdered ==
    (/\ ParseCalled
     /\ notebook.decodable
     /\ "nbformat" \in notebook.keys
     /\ notebook.nbformat \in {4, 5})
    => /\ raised = "none"
       /\ Len(parsed) = 1
       /\ Len(parsed[1].cells) = Len(notebook.cells)
       /\ \A i \in 1..Len(notebook.cells) :
            /\ DerivedFrom(parsed[1].cells[i], notebook.cells[i])
            /\ parsed[1].cells[i].category \in Categories

\* A version-5 notebook of two different cells, one of them blank, was parsed.
C1_Witness ==
    /\ parsed # <<>>
    /\ notebook.nbformat = 5
    /\ Len(notebook.cells) = 2
    /\ notebook.cells[1] # notebook.cells[2]
    /\ IsBlank(parsed[1].cells[1].source)
    /\ parsed[1].cells[2].category = "setup"

\* C6: classification is a total function of (kind, source): every parsed
\* cell has one category of the category set; two cells with the same kind
\* and source have the same category whatever their metadata, outputs and
\* position; a kind other than code and markdown gives other; a code source
\* matching no rule gives general_code and a markdown source matching no
\* rule gives documentation.
C6_ClassificationTotalDeterministic ==
    (ParseCalled /\ notebook.decodable /\ Get(notebook, "nbformat", 4) \in {4, 5})
    => /\ raised = "none"
       /\ Len(ParsedCells) = Len(notebook.cells)
       /\ \A i \in 1..Len(ParsedCells) :
            LET c == ParsedCells[i]
            IN  /\ c.category \in Categories
                /\ \A j \in 1..Len(ParsedCells) :
                     (ParsedCells[j].cell_type = c.cell_type
                        /\ ParsedCells[j].source = c.source)
                     => ParsedCells[j].category = c.category
                /\ c.cell_type \notin {"code", "markdown"} => c.category = "other"
                /\ (c.cell_type = "code" /\ ~IsBlank(c.source)
                      /\ RulesMatched(CodeRuleOrder, c.source) = {})
                   => c.category = "general_code"
                /\ (c.cell_type = "markdown" /\ ~IsBlank(c.source)
                      /\ RulesMatched(MarkdownRuleOrder, c.source) = {}
                      /\ ~StartsWith(c.source, <<"#">>)
                      /\ ~Contains(c.source, <<"#","#">>))
                   => c.category = "documentation"

\* The same code source was parsed at two positions with different metadata
\* and outputs, and a cell of another kind holding an import statement was
\* parsed.
C6_Witness ==
    /\ Len(ParsedCells) = 2
    /\ "cell_type" \notin notebook.cells[1].keys
    /\ ParsedCells[1].cell_type = "code"
    /\ ParsedCells[2].cell_type = "code"
    /\ ParsedCells[1].source = ParsedCells[2].source
    /\ ParsedCells[1].metadata # ParsedCells[2].metadata
    /\ ParsedCells[1].outputs # ParsedCells[2].outputs
    /\ ParsedCells[1].category = "general_code"
    /\ ParsedCells[2].category = "general_code"

(***************************************************************************)
(* DependencyAnalyzer: more text primitives.                               *)
(***************************************************************************)
\* The first index i >= from with s[i] in `stop`, or Len(s) + 1.
FirstIn(s, from, stop) ==
    LET hits == {i \in from..Len(s) : s[i] \in stop}
    IN  IF hits = {} THEN Len(s) + 1 ELSE Least(hits)

\* The first index i >= from with s[i] not in `skip`, or Len(s) + 1.
FirstNotIn(s, from, skip) ==
    LET hits == {i \in from..Len(s) : s[i] \notin skip}
    IN  IF hits = {} THEN Len(s) + 1 ELSE Least(hits)

\* s.split(sep) for a one-character separator
RECURSIVE Split(_, _)
Split(s, sep) ==
    LET at == FirstIn(s, 1, {sep})
    IN  IF at > Len(s) THEN <<s>>
        ELSE <<SubSeq(s, 1, at - 1)>> \o Split(SubSeq(s, at + 1, Len(s)), sep)

\* name.split('.')[0]
TopLevel(name) == Split(name, ".")[1]

\* s has `word` at index at
HasAt(s, at, word) ==
    /\ at + Len(word) - 1 <= Len(s)
    /\ SubSeq(s, at, at + Len(word) - 1) = word

KwImport == <<"i","m","p","o","r","t">>
KwFrom == <<"f","r","o","m">>

(***************************************************************************)
(* DependencyAnalyzer._extract_imports_regex                               *)
(***************************************************************************)
\* ^ under re.MULTILINE: the start of the text or just after a newline
AtLineStart(s, p) == p = 1 \/ s[p - 1] = "\n"

\* One attempt to match  ^\s*import\s+([^\n#]+)  at p: whether it matches,
\* the captured group and the index after the match.  \s* and \s+ are greedy;
\* \s+ gives characters back until the group can start on a character that
\* is neither a newline nor '#'.
MatchImportAt(s, p) ==
    LET a     == FirstNotIn(s, p, Whitespace)
        q     == a + Len(KwImport)
        r     == FirstNotIn(s, q, Whitespace)
        start == {g \in (q + 1)..r : g <= Len(s) /\ s[g] \notin {"\n", "#"}}
    IN  IF AtLineStart(s, p) /\ HasAt(s, a, KwImport) /\ start # {}
            THEN LET g == CHOOSE x \in start : \A y \in start : y <= x
                     e == FirstIn(s, g, {"\n", "#"})
                 IN  [matched |-> TRUE, group |-> SubSeq(s, g, e - 1), end |-> e]
            ELSE [matched |-> FALSE, group |-> <<>>, end |-> p]

\* One attempt to match  ^\s*from\s+([^\s\n#]+)\s+import  at p.
MatchFromAt(s, p) ==
    LET a == FirstNotIn(s, p, Whitespace)
        q == a + Len(KwFrom)
        g == FirstNotIn(s, q, Whitespace)
        e == FirstIn(s, g, Whitespace \cup {"#"})
        i == FirstNotIn(s, e, Whitespace)
    IN  IF /\ AtLineStart(s, p) /\ HasAt(s, a, KwFrom)
           /\ g > q /\ e > g /\ i > e /\ HasAt(s, i, KwImport)
            THEN [matched |-> TRUE, group |-> SubSeq(s, g, e - 1),
                  end |-> i + Len(KwImport)]
            ELSE [matched |-> FALSE, group |-> <<>>, end |-> p]

\* The first line start at or after pos (a match can begin nowhere else).
NextLineStart(s, pos) ==
    IF AtLineStart(s, pos) THEN pos ELSE FirstIn(s, pos, {"\n"}) + 1

\* re.findall: the groups of the non-overlapping matches, scanning from pos
RECURSIVE FindAllImport(_, _)
FindAllImport(s, pos) ==
    LET p == NextLineStart(s, pos)
    IN  IF p > Len(s) THEN <<>>
        ELSE LET m == MatchImportAt(s, p)
             IN  IF m.matched THEN <<m.group>> \o FindAllImport(s, m.end)
                 ELSE FindAllImport(s, p + 1)

RECURSIVE FindAllFrom(_, _)
FindAllFrom(s, pos) ==
    LET p == NextLineStart(s, pos)
    IN  IF p > Len(s) THEN <<>>
        ELSE LET m == MatchFromAt(s, p)
             IN  IF m.matched THEN <<m.group>> \o FindAllFrom(s, m.end)
                 ELSE FindAllFrom(s, p + 1)

ExtractImportsRegex(source) ==
    LET import_matches == FindAllImport(source, 1)
        from_matches   == FindAllFrom(source, 1)
    IN  UNION {{TopLevel(Strip(Split(import_matches[m], ",")[l])) :
                  l \in 1..Len(Split(import_matches[m], ","))} :
               m \in DOMAIN import_matches}
        \cup {TopLevel(from_matches[m]) : m \in DOMAIN from_matches}

(***************************************************************************)
(* ast.parse, for the statements the inputs are made of: import and        *)
(* from-import statements, assignments of a name or a number, a bare       *)
(* name, `if NAME:` with its indented block, comments; anything else is a  *)
(* SyntaxError.                                                            *)
(***************************************************************************)
Digits == {"0", "1", "2", "3", "4", "5", "6", "7", "8", "9"}

IdentifierChars ==
    DOMAIN LowerMap \cup {LowerMap[c] : c \in DOMAIN LowerMap} \cup Digits \cup {"_"}

PythonKeywords ==
    {KwImport, KwFrom, <<"a","s">>, <<"i","f">>}

IsIdentifier(w) ==
    /\ w # <<>>
    /\ \A i \in 1..Len(w) : w[i] \in IdentifierChars
    /\ w[1] \notin Digits
    /\ w \notin PythonKeywords

IsDottedName(w) ==
    LET segments == Split(w, ".")
    IN  \A k \in 1..Len(segments) : IsIdentifier(segments[k])

IsNumber(w) == w # <<>> /\ \A i \in 1..Len(w) : w[i] \in Digits

\* The whitespace-separated words of s.
RECURSIVE Words(_)
Words(s) ==
    LET a == FirstNotIn(s, 1, Whitespace)
    IN  IF a > Len(s) THEN <<>>
        ELSE LET e == FirstIn(s, a, Whitespace)
             IN  <<SubSeq(s, a, e - 1)>> \o Words(SubSeq(s, e, Len(s)))

\* The words from the k-th on, one space between them.
RECURSIVE WordsFrom(_, _)
WordsFrom(ws, k) ==
    IF k > Len(ws) THEN <<>>
    ELSE IF k = Len(ws) THEN ws[k]
    ELSE ws[k] \o <<" ">> \o WordsFrom(ws, k + 1)

\* An item of an import list: NAME or NAME as NAME (NAME dotted when allowed).
IsImportItem(item, dotted) ==
    LET ws == Words(item)
    IN  /\ Len(ws) \in {1, 3}
        /\ IF dotted THEN IsDottedName(ws[1]) ELSE IsIdentifier(ws[1])
        /\ Len(ws) = 3 => (ws[2] = <<"a","s">> /\ IsIdentifier(ws[3]))

\* One logical line: its indentation, its kind ("blank", "simple",
\* "header" or "invalid"), the alias.name / node.module values of the
\* import node it holds, and the nesting depth of its expression.
StatementOf(line) ==
    LET text   == SubSeq(line, 1, FirstIn(line, 1, {"#"}) - 1)
        indent == FirstNotIn(text, 1, Whitespace) - 1
        ws     == Words(text)
        stmt(kind, modules) ==
            [indent |-> indent, kind |-> kind, modules |-> modules, depth |-> 0]
    IN  IF ws = <<>> THEN stmt("blank", {})
        ELSE IF ws[1] = KwImport THEN
            LET items == Split(WordsFrom(ws, 2), ",")
            IN  IF \A k \in 1..Len(items) : IsImportItem(items[k], TRUE)
                    THEN stmt("simple", {Words(items[k])[1] : k \in 1..Len(items)})
                    ELSE stmt("invalid", {})
        ELSE IF ws[1] = KwFrom THEN
            IF Len(ws) >= 4 /\ ws[3] = KwImport
                THEN LET level  == FirstNotIn(ws[2], 1, {"."}) - 1
                         module == SubSeq(ws[2], level + 1, Len(ws[2]))
                         items  == Split(WordsFrom(ws, 4), ",")
                     IN  IF /\ (module = <<>> /\ level >= 1) \/ IsDottedName(module)
                            /\ \/ WordsFrom(ws, 4) = <<"*">>
                               \/ \A k \in 1..Len(items) : IsImportItem(items[k], FALSE)
                             THEN stmt("simple", IF module = <<>> THEN {} ELSE {module})
                             ELSE stmt("invalid", {})
                ELSE stmt("invalid", {})
        ELSE IF Len(ws) = 2 /\ ws[1] = <<"i","f">> THEN
            IF /\ ws[2][Len(ws[2])] = ":"
               /\ IsIdentifier(SubSeq(ws[2], 1, Len(ws[2]) - 1))
                THEN stmt("header", {})
                ELSE stmt("invalid", {})
        ELSE IF Len(ws) = 3 /\ ws[2] = <<"=">> THEN
            IF IsIdentifier(ws[1]) /\ (IsNumber(ws[3]) \/ IsDottedName(ws[3]))
                THEN stmt("simple", {})
                ELSE stmt("invalid", {})
        ELSE IF Len(ws) = 1 THEN
            \* an expression statement: unary minus signs before a name or a number
            LET signs   == FirstNotIn(ws[1], 1, {"-"}) - 1
                operand == SubSeq(ws[1], signs + 1, Len(ws[1]))
            IN  IF IsDottedName(operand) \/ IsNumber(operand)
                    THEN [indent |-> indent, kind |-> "simple", modules |-> {},
                          depth |-> signs]
                    ELSE stmt("invalid", {})
        ELSE stmt("invalid", {})

\* INDENT/DEDENT: the statements from the k-th on form well-nested blocks,
\* given the stack of open indentations and whether a block must open.
RECURSIVE BlocksOK(_, _, _, _)
BlocksOK(stmts, k, stack, expect) ==
    IF k > Len(stmts) THEN ~expect
    ELSE LET st  == stmts[k]
             top == stack[Len(stack)]
         IN  IF st.kind = "invalid" THEN FALSE
             ELSE IF expect THEN
                 /\ st.indent > top
                 /\ BlocksOK(stmts, k + 1, Append(stack, st.indent), st.kind = "header")
             ELSE /\ \E j \in 1..Len(stack) : stack[j] = st.indent
                  /\ BlocksOK(stmts, k + 1,
                              SelectSeq(stack, LAMBDA x : x <= st.indent),
                              st.kind = "header")

\* ast.parse(code): whether it returns a tree, the import nodes of the
\* tree (each by its alias.name or node.module values), and the exception
\* it raises otherwise: SyntaxError for source that is not Python, and
\* RecursionError when the tree of valid source is nested too deep to build.
AstParseStatements(stmts) ==
    IF ~BlocksOK(stmts, 1, <<0>>, FALSE)
        THEN [ok |-> FALSE, modules |-> {}, raised |-> "SyntaxError"]
    ELSE IF \E k \in 1..Len(stmts) : stmts[k].depth > MaxNesting
        THEN [ok |-> FALSE, modules |-> {}, raised |-> "RecursionError"]
    ELSE [ok |-> TRUE,
          modules |-> UNION {stmts[k].modules : k \in 1..Len(stmts)},
          raised |-> "none"]

\* The statements of the lines, the blank lines and comment lines left out.
StatementsOf(lines) ==
    SelectSeq([k \in DOMAIN lines |-> StatementOf(lines[k])],
              LAMBDA st : st.kind # "blank")

AstParse(source) == AstParseStatements(StatementsOf(Split(source, "\n")))

(***************************************************************************)
(* DependencyAnalyzer._extract_imports                                     *)
(***************************************************************************)
\* The structural path: the walk over the tree's import nodes.
WalkImportsWholeName(tree) == tree.modules

WalkImports(tree) == {TopLevel(name) : name \in tree.modules}

\* Which path the call takes for the source: the walk, the fallback of
\* `except SyntaxError`, or out of the call with the exception.
PathOfTree(tree) ==
    IF tree.ok THEN "ast"
    ELSE IF tree.raised = "SyntaxError" THEN "regex"
    ELSE "raised"

PathOf(source) == PathOfTree(AstParse(source))

\* The exception _extract_imports lets through ("none" when it returns).
RaisedOfTree(tree) ==
    IF PathOfTree(tree) = "raised" THEN tree.raised ELSE "none"

ExtractImportsRaised(source) == RaisedOfTree(AstParse(source))

\* The set _extract_imports returns, when it returns.
ExtractImportsOfTree(tree, source) ==
    IF tree.ok THEN WalkImports(tree)
    ELSE ExtractImportsRegex(source)

ExtractImports(source) == ExtractImportsOfTree(AstParse(source), source)

(***************************************************************************)
(* DependencyAnalyzer.analyze_dependencies                                 *)
(***************************************************************************)
\* The loop over the cells with the cell_type test left out.
RECURSIVE CollectImportsAnyKind(_, _)
CollectImportsAnyKind(notebook_cells, all_imports) ==
    IF notebook_cells = <<>> THEN all_imports
    ELSE CollectImportsAnyKind(Tail(notebook_cells),
                               all_imports \cup ExtractImports(Head(notebook_cells).source))

\* The loop over the cells: all_imports.update(imports) for each code cell.
RECURSIVE CollectImports(_, _)
CollectImports(notebook_cells, all_imports) ==
    IF notebook_cells = <<>> THEN all_imports
    ELSE LET cell == Head(notebook_cells)
         IN  CollectImports(Tail(notebook_cells),
                            IF cell.cell_type = "code"
                                THEN all_imports \cup ExtractImports(cell.source)
                                ELSE all_imports)

\* The keys of self.import_patterns.
ImportCategories == {"standard_lib", "data_science", "ml_frameworks", "visualization"}

\* The four membership predicates (_is_standard_lib, _is_data_science_lib,
\* _is_ml_framework, _is_visualization_lib).
KnownLibraries ==
    [standard_lib  |-> {<<"o","s">>, <<"s","y","s">>, <<"j","s","o","n">>},
     data_science  |-> {<<"n","u","m","p","y">>, <<"p","a","n","d","a","s">>},
     ml_frameworks |-> {<<"s","k","l","e","a","r","n">>},
     visualization |-> {<<"m","a","t","p","l","o","t","l","i","b">>,
                        <<"s","e","a","b","o","r","n">>}]

CheckFunc(category, lib) == lib \in KnownLibraries[category]

\* The lists _generate_requirements may return for the set: its elements,
\* each once, in some order.
GenerateRequirements(all_imports) ==
    {req \in [1..Cardinality(all_imports) -> all_imports] :
        \A i, j \in DOMAIN req : req[i] = req[j] => i = j}

\* The exception analyze_dependencies lets through: that of the first code
\* cell whose extraction raises ("none" when the loop completes).
CellRaised(cell) ==
    IF cell.cell_type = "code" THEN ExtractImportsRaised(cell.source) ELSE "none"

FirstRaised(of_cell, of_rest) == IF of_cell # "none" THEN of_cell ELSE of_rest

RECURSIVE AnalyzeDependenciesRaised(_)
AnalyzeDependenciesRaised(notebook_cells) ==
    IF notebook_cells = <<>> THEN "none"
    ELSE FirstRaised(CellRaised(Head(notebook_cells)),
                     AnalyzeDependenciesRaised(Tail(notebook_cells)))

\* The report with the identifiers of no category left out of it.
AnalyzeDependenciesOutcomesKnownOnly(notebook_cells) ==
    LET all_imports == {lib \in CollectImports(notebook_cells, {}) :
                          \E category \in ImportCategories : CheckFunc(category, lib)}
    IN  {[all_dependencies |-> all_imports,
          categorized      |-> [category \in ImportCategories |->
                                  {lib \in all_imports : CheckFunc(category, lib)}],
          requirements     |-> req] : req \in GenerateRequirements(all_imports)}

\* The report with the requirements made of the categorized identifiers
\* instead of all_imports.
AnalyzeDependenciesOutcomesCategorizedRequirements(notebook_cells) ==
    LET all_imports == CollectImports(notebook_cells, {})
        categorized == [category \in ImportCategories |->
                          {lib \in all_imports : CheckFunc(category, lib)}]
    IN  {[all_dependencies |-> all_imports,
          categorized      |-> categorized,
          requirements     |-> req] :
            req \in GenerateRequirements(
                       UNION {categorized[category] : category \in ImportCategories})}

\* The reports the call may return for the cells, when it returns.
ReportsOf(all_imports) ==
    {[all_dependencies |-> all_imports,
      categorized      |-> [category \in ImportCategories |->
                              {lib \in all_imports : CheckFunc(category, lib)}],
      requirements     |-> req] : req \in GenerateRequirements(all_imports)}

AnalyzeDependenciesOutcomes(notebook_cells) ==
    ReportsOf(CollectImports(notebook_cells, {}))

(***************************************************************************)
(* Inputs of the import extraction (SpecExtract): sources of at most       *)
(* MaxLines lines.                                                         *)
(***************************************************************************)
LineImportNumpy == <<"i","m","p","o","r","t"," ","n","u","m","p","y">>
LineImportNumpyAs ==
    <<"i","m","p","o","r","t"," ","n","u","m","p","y"," ","a","s"," ","n","p">>
LineImportDotted == <<"i","m","p","o","r","t"," ","a",".","b",".","c">>
LineFromDotted ==
    <<"f","r","o","m"," ","a",".","b",".","c"," ","i","m","p","o","r","t"," ","x">>
LineImportOsSys == <<"i","m","p","o","r","t"," ","o","s",","," ","s","y","s">>
LineFromRelative == <<"f","r","o","m"," ","."," ","i","m","p","o","r","t"," ","x">>
LineMagic ==
    <<"%","m","a","t","p","l","o","t","l","i","b"," ","i","n","l","i","n","e">>
LineStray == <<"?">>
LineIf == <<"i","f"," ","x",":">>
LineIndentedImport == <<" "," "," "," ","i","m","p","o","r","t"," ","j","s","o","n">>
LineComment == <<"#"," ","i","m","p","o","r","t"," ","f","a","k","e">>
LineImportPandasAs ==
    <<"i","m","p","o","r","t"," ","p","a","n","d","a","s"," ","a","s"," ","p","d">>
LineFromSklearn ==
    <<"f","r","o","m"," ","s","k","l","e","a","r","n",".","l","i","n","e","a","r","_",
      "m","o","d","e","l"," ","i","m","p","o","r","t"," ","L","i","n","e","a","r","R",
      "e","g","r","e","s","s","i","o","n">>

\* An expression of two nested unary operators, and one nested one level
\* deeper than ast.parse can build.
LineNested == <<"-", "-", "1">>
LineDeep == [i \in 1..(MaxNesting + 1) |-> "-"] \o <<"1">>

SourceLines ==
    {LineImportNumpy, LineImportNumpyAs, LineImportDotted, LineFromDotted,
     LineImportOsSys, LineFromRelative, LineMagic, LineStray, TextAssign, LineIf,
     LineIndentedImport, LineComment, LineImportPandasAs, LineFromSklearn,
     LineNested, LineDeep}

\* '\n'.join(lines)
RECURSIVE JoinLines(_)
JoinLines(lines) ==
    IF lines = <<>> THEN <<>>
    ELSE IF Len(lines) = 1 THEN lines[1]
    ELSE lines[1] \o <<"\n">> \o JoinLines(Tail(lines))

InitExtract ==
    /\ notebook = UndecodableNotebook
    /\ parsed = <<>>
    /\ raised = "none"
    /\ \E k \in 0..MaxLines : \E lines \in [1..k -> SourceLines] :
          code = JoinLines(lines)
    /\ imports = <<>>
    /\ path = "none"
    /\ fallback = <<>>
    /\ report = NoReport
    /\ ConvertIdle

\* self._extract_imports(code), called once on the source: it returns the
\* set, or lets the exception of ast.parse through.
CallExtractImports ==
    /\ path = "none"
    /\ path' = PathOf(code)
    /\ raised' = ExtractImportsRaised(code)
    /\ imports' = IF raised' = "none"
                  THEN <<ExtractImports(code)>> ELSE <<>>
    /\ UNCHANGED <<notebook, parsed, code, fallback, report, convertVars>>

\* self._extract_imports_regex(code), called once on the source
CallExtractImportsRegex ==
    /\ fallback = <<>>
    /\ fallback' = <<ExtractImportsRegex(code)>>
    /\ UNCHANGED <<parseVars, code, imports, path, report, convertVars>>

NextExtract == CallExtractImports \/ CallExtractImportsRegex

SpecExtract == InitExtract /\ [][NextExtract]_vars

(***************************************************************************)
(* Inputs of the dependency analysis (SpecDeps): notebooks of at most      *)
(* MaxCells cells drawn from a pool of code, markdown and raw cells.       *)
(***************************************************************************)
CodeCell(text) == RawCell(AllCellKeys, "code", StrSource(text), NoMetadata, <<>>)

DepCellPool ==
    { CodeCell(LineImportNumpy),
      CodeCell(LineImportNumpyAs),
      CodeCell(LineFromDotted),
      CodeCell(LineImportOsSys),
      CodeCell(JoinLines(<<LineImportPandasAs, LineFromSklearn>>)),
      CodeCell(JoinLines(<<LineMagic, LineImportPandasAs>>)),
      CodeCell(LineStray),
      CodeCell(LineDeep),
      RawCell(AllCellKeys, "markdown", StrSource(TextImportOs), NoMetadata, <<>>),
      RawCell(AllCellKeys, "raw", StrSource(LineImportDotted), NoMetadata, <<>>) }

InitDeps ==
    /\ \E k \in 0..MaxCells : \E cells \in [1..k -> DepCellPool] :
          notebook = Notebook(TRUE, AllNotebookKeys, 4, NoMetadata, cells)
    /\ parsed = <<>>
    /\ raised = "none"
    /\ ExtractIdle
    /\ report = NoReport
    /\ ConvertIdle

\* The cells with the source of every code cell taken out of it.
CellsAfterAnalysisSourcesConsumed(notebook_cells) ==
    [i \in DOMAIN notebook_cells |->
        IF notebook_cells[i].cell_type = "code"
            THEN [notebook_cells[i] EXCEPT !.source = <<>>]
            ELSE notebook_cells[i]]

\* The list analyze_dependencies was given, as the call leaves it: the
\* loop reads cell['cell_type'] and cell['source'] and assigns to neither
\* the list nor a cell.
CellsAfterAnalysis(notebook_cells) == notebook_cells

\* parsed_notebook['cells'] as generate_python_files leaves it:
\* _categorize_cells appends the cells to lists of its own and the
\* generators read cell['source'].
CellsAfterGeneration(cells) == cells

\* analyzer.analyze_dependencies(parsed_notebook['cells']), called once
AnalyzeDependencies ==
    /\ parsed # <<>>
    /\ report = NoReport
    /\ raised = "none"
    /\ raised' = AnalyzeDependenciesRaised(parsed[1].cells)
    /\ IF raised' # "none"
       THEN report' = report
       ELSE \E outcome \in AnalyzeDependenciesOutcomes(parsed[1].cells) :
               report' = <<outcome>>
    /\ parsed' = <<[parsed[1] EXCEPT !.cells = CellsAfterAnalysis(@)]>>
    /\ UNCHANGED <<notebook, extractVars, convertVars>>

NextDeps == ParseNotebook \/ AnalyzeDependencies

SpecDeps == InitDeps /\ [][NextDeps]_vars

(***************************************************************************)
(* Claims about the import extraction (SpecExtract).                       *)
(***************************************************************************)
\* The module references the import declarations of the source name: for
\* `import M [as A], ...` every M, for `from M import ...` the M (without
\* the dots of a relative import).  Alias names and imported member names
\* are not among them.
DeclaredModules(source) ==
    LET lines == Split(source, "\n")
        of(line) ==
            LET ws == Words(SubSeq(line, 1, FirstIn(line, 1, {"#"}) - 1))
            IN  IF ws = <<>> THEN {}
                ELSE IF ws[1] = KwImport THEN
                    LET items == Split(WordsFrom(ws, 2), ",")
                    IN  {Words(items[k])[1] : k \in 1..Len(items)}
                ELSE IF ws[1] = KwFrom /\ Len(ws) >= 2 THEN
                    {SubSeq(ws[2], FirstNotIn(ws[2], 1, {"."}), Len(ws[2]))} \ {<<>>}
                ELSE {}
    IN  UNION {of(lines[k]) : k \in 1..Len(lines)}

\* The text before the first dot.
FirstSegment(name) == SubSeq(name, 1, FirstIn(name, 1, {"."}) - 1)

\* C7: on the structural path _extract_imports returns, for the import
\* declarations of the source, the first dotted segment of each imported
\* module and nothing else: `import a.b.c` and `from a.b.c import x` give
\* exactly a; alias names and member names give nothing.
C7_StructuralPathTopLevelOnly ==
    (imports # <<>> /\ path = "ast") =>
        /\ imports[1] = {FirstSegment(m) : m \in DeclaredModules(code)}
        /\ \A name \in imports[1] : IsIdentifier(name)
        /\ code \in {LineImportDotted, LineFromDotted} => imports[1] = {<<"a">>}

\* `import numpy as np` followed by `from a.b.c import x` was extracted on
\* the structural path as {numpy, a}.
C7_Witness ==
    /\ code = JoinLines(<<LineImportNumpyAs, LineFromDotted>>)
    /\ path = "ast"
    /\ imports = <<{<<"n","u","m","p","y">>, <<"a">>}>>

\* C8 (as claimed): for a syntactically valid source the fallback scanner
\* returns the same identifiers as the structural path.
C8_FallbackAgreesOnValidSource ==
    (imports # <<>> /\ fallback # <<>> /\ path = "ast") => fallback[1] = imports[1]

(***************************************************************************)
(* Claims about analyze_dependencies (SpecDeps).                           *)
(***************************************************************************)
Report == report[1]

\* A single top-level identifier: not empty, no dot, no whitespace, no
\* alias clause.
IsTopLevelIdentifier(name) ==
    /\ name # <<>>
    /\ \A i \in 1..Len(name) : name[i] \notin Whitespace \cup {".", ","}
    /\ IsIdentifier(name)

\* C9 (as claimed): every element of all_dependencies is a single top-level
\* identifier, also for cells that took the fallback path.
C9_DependenciesAreIdentifiers ==
    report # NoReport =>
        \A name \in Report.all_dependencies : IsTopLevelIdentifier(name)

\* The cells of the sequence in the order perm gives.
Permuted(cells, perm) == [i \in 1..Len(cells) |-> cells[perm[i]]]

PermutationsOf(n) ==
    {perm \in [1..n -> 1..n] : \A i, j \in 1..n : perm[i] = perm[j] => i = j}

\* C10: all_dependencies is the union of the identifiers extracted from the
\* code cells only: analysing the cells in any other order gives the same
\* set, an identifier imported several times is there once, and cells of
\* another kind contribute nothing.
C10_DependenciesAreUnionOverCodeCells ==
    report # NoReport =>
        LET cells == parsed[1].cells
            coded == SelectSeq(cells, LAMBDA c : c.cell_type = "code")
        IN  /\ Report.all_dependencies =
                 UNION {ExtractImports(coded[i].source) : i \in 1..Len(coded)}
            /\ \A perm \in PermutationsOf(Len(cells)) :
                 CollectImports(Permuted(cells, perm), {}) = Report.all_dependencies

\* Two code cells that both import numpy were analysed, and the report holds
\* numpy once.
C10_Witness ==
    /\ report # NoReport
    /\ Len(parsed[1].cells) = 2
    /\ parsed[1].cells[1].cell_type = "code"
    /\ parsed[1].cells[2].cell_type = "code"
    /\ parsed[1].cells[1].source = LineImportNumpy
    /\ parsed[1].cells[2].source = LineImportNumpyAs
    /\ Report.all_dependencies = {<<"n","u","m","p","y">>}
    /\ Cardinality(Report.all_dependencies) = 1

(***************************************************************************)
(* The convert command (cli/main.py).  A path is the sequence of its       *)
(* components below the --output-dir argument, which is the path <<>>.     *)
(***************************************************************************)
\* Path.mkdir(parents=True, exist_ok=True): the directory and its ancestors
Prefixes(dir) == {SubSeq(dir, 1, k) : k \in 0..Len(dir)}

\* notebook_path.stem
ProjectName == "notebook"

\* ProjectStructureManager.standard_structure
StandardStructure ==
    [data      |-> <<"raw", "processed", "external">>,
     models    |-> <<"trained", "pretrained">>,
     src       |-> <<"data", "models", "utils", "config">>,
     notebooks |-> <<"exploratory", "experimental">>,
     tests     |-> <<"unit", "integration">>,
     docs      |-> <<>>,
     reports   |-> <<"figures">>]

\* The standard files _create_standard_files writes into the project.
StandardFiles == {"requirements.txt", ".gitignore", "config.py"}

\* create_ml_project_structure(base_path, project_name): the paths it
\* creates, and the directory it returns for every standard name.
CreateMlProjectStructure(base_path, project_name) ==
    LET project_path == Append(base_path, project_name)
        names == DOMAIN StandardStructure
    IN  [created |->
            Prefixes(project_path)
            \cup {Append(project_path, dir_name) : dir_name \in names}
            \cup UNION {{project_path \o <<dir_name, StandardStructure[dir_name][i]>> :
                           i \in DOMAIN StandardStructure[dir_name]} :
                        dir_name \in names}
            \cup {Append(project_path, name) : name \in StandardFiles},
         created_paths |-> [dir_name \in names |-> Append(project_path, dir_name)]]

\* The local variable output_dir of convert after the structure stage.
OutputDir(r) ==
    IF r.create_structure
    THEN CreateMlProjectStructure(<<>>, ProjectName).created_paths["src"]
    ELSE <<>>

\* The local variable project_root of convert after the structure stage:
\* Path(output_dir).parent when the structure was created.
ProjectRoot(r) ==
    IF r.create_structure
    THEN SubSeq(OutputDir(r), 1, Len(OutputDir(r)) - 1)
    ELSE <<>>

\* What exists below the output directory before the command runs.
Existing(r) ==
    IF r.git_exists THEN Prefixes(Append(ProjectRoot(r), ".git")) ELSE {}

\* CodeGenerator._categorize_cells: the categories that have a cell
CategorizedKeys(cells) == {cells[i].category : i \in DOMAIN cells}

\* CodeGenerator.generate_python_files: the paths it creates or writes.
GeneratePythonFiles(parsed_notebook, output_dir) ==
    LET categorized_cells == CategorizedKeys(parsed_notebook.cells)
    IN  Prefixes(output_dir)
        \cup {Append(output_dir, "main.py")}
        \cup (IF "function_definitions" \in categorized_cells
              THEN {Append(output_dir, "functions.py")} ELSE {})
        \cup (IF "model_training" \in categorized_cells
              THEN {Append(output_dir, "training.py")} ELSE {})
        \cup {Append(output_dir, "config.py")}

\* The Python type of each value of the report analyze_dependencies returns.
ReportTypes ==
    [all_dependencies |-> "set", categorized |-> "dict of set",
     requirements |-> "list"]

\* The types json.dump serialises; a value of another type raises TypeError.
JsonSerializable == {"dict", "list", "str", "int", "float", "bool", "None"}

JsonDumpRaises(types) == \E key \in DOMAIN types : types[key] \notin JsonSerializable

\* ConfigManager(config_dir).create_ml_config: the paths it creates or writes.
CreateMlConfig(config_dir) ==
    {config_dir}
    \cup {Append(config_dir, name) :
            name \in {"project_config.yaml", "environment.yaml",
                      "training_config.yaml", "data_config.yaml"}}

(***************************************************************************)
(* CodeGenerator (converter/code_generator.py): the text of the modules.   *)
(***************************************************************************)
\* str.replace(old, new) for one-character old and new
Replace(s, old, new) == [i \in DOMAIN s |-> IF s[i] = old THEN new ELSE s[i]]

Letters == DOMAIN LowerMap \cup {LowerMap[c] : c \in DOMAIN LowerMap}

\* str.upper() of one character
UpperChar(c) ==
    IF \E u \in DOMAIN LowerMap : LowerMap[u] = c
    THEN CHOOSE u \in DOMAIN LowerMap : LowerMap[u] = c
    ELSE c

\* str.title(): a letter that follows no letter is upper case, every other
\* letter is lower case
Title(s) ==
    [i \in DOMAIN s |->
        IF s[i] \notin Letters THEN s[i]
        ELSE IF i = 1 \/ s[i - 1] \notin Letters THEN UpperChar(s[i])
        ELSE Lower(<<s[i]>>)[1]]

\* The cells of the category with the testing cells added to them.
CellsOfWithTesting(cells, category) ==
    SelectSeq(cells, LAMBDA cell : cell.category \in {category, "testing"})

\* The cells of the category in document order (categorized_cells[category]),
\* empty when _categorize_cells made no key for it.
CellsOf(cells, category) == SelectSeq(cells, LAMBDA cell : cell.category = category)

\* The cell source with only its first line indented.
IndentFirstLine(source) == <<" ", " ", " ", " ">> \o source

\* '\n'.join(f"    {line}" for line in source.split('\n'))
Indent(source) ==
    LET lines == Split(source, "\n")
    IN  JoinLines([k \in 1..Len(lines) |-> <<" ", " ", " ", " ">> \o lines[k]])

\* The fixed lines of _generate_main_script.
MainShebang ==
    <<"#","!","/","u","s","r","/","b","i","n","/","e","n","v"," ","p","y",
      "t","h","o","n","3">>

DocQuotes ==
    <<"\"","\"","\"">>

MainDocstring ==
    <<"M","a","i","n"," ","e","x","e","c","u","t","i","o","n"," ","s","c",
      "r","i","p","t"," ","g","e","n","e","r","a","t","e","d"," ","f","r",
      "o","m"," ","J","u","p","y","t","e","r"," ","n","o","t","e","b","o",
      "o","k">>

DefMain ==
    <<"d","e","f"," ","m","a","i","n","(",")",":">>

MainBodyDocstring ==
    <<" "," "," "," ","\"","\"","\"","M","a","i","n"," ","e","x","e","c",
      "u","t","i","o","n"," ","f","u","n","c","t","i","o","n","\"","\"",
      "\"">>

LabelPrefix ==
    <<" "," "," "," ","#"," ">>

GuardLine ==
    <<"\n","i","f"," ","_","_","n","a","m","e","_","_"," ","=","="," ","\"",
      "_","_","m","a","i","n","_","_","\"",":">>

CallMain ==
    <<" "," "," "," ","m","a","i","n","(",")">>

\* The names of the execution categories as text.
CategoryText ==
    [data_processing |->
       <<"d","a","t","a","_","p","r","o","c","e","s","s","i","n","g">>,
     model_training |->
       <<"m","o","d","e","l","_","t","r","a","i","n","i","n","g">>,
     visualization |->
       <<"v","i","s","u","a","l","i","z","a","t","i","o","n">>,
     general_code |->
       <<"g","e","n","e","r","a","l","_","c","o","d","e">>]

\* The docstrings of the functions and the training module.
FunctionsDocstring ==
    <<"U","t","i","l","i","t","y"," ","f","u","n","c","t","i","o","n","s",
      " ","g","e","n","e","r","a","t","e","d"," ","f","r","o","m"," ","J",
      "u","p","y","t","e","r"," ","n","o","t","e","b","o","o","k">>

TrainingDocstring ==
    <<"T","r","a","i","n","i","n","g"," ","m","o","d","u","l","e"," ","f",
      "o","r"," ","m","a","c","h","i","n","e"," ","l","e","a","r","n","i",
      "n","g"," ","m","o","d","e","l","s">>

\* config_content of _generate_config_files, line by line.
ConfigLines ==
    << <<"\"","\"","\"","C","o","n","f","i","g","u","r","a","t","i","o","n",
         " ","f","i","l","e"," ","f","o","r"," ","M","L"," ","p","r","o","j",
         "e","c","t","\"","\"","\"">>,
       <<>>,
       <<"i","m","p","o","r","t"," ","o","s">>,
       <<"f","r","o","m"," ","p","a","t","h","l","i","b"," ","i","m","p","o",
         "r","t"," ","P","a","t","h">>,
       <<>>,
       <<"#"," ","P","r","o","j","e","c","t"," ","s","t","r","u","c","t","u",
         "r","e">>,
       <<"P","R","O","J","E","C","T","_","R","O","O","T"," ","="," ","P","a",
         "t","h","(","_","_","f","i","l","e","_","_",")",".","p","a","r","e",
         "n","t">>,
       <<"D","A","T","A","_","D","I","R"," ","="," ","P","R","O","J","E","C",
         "T","_","R","O","O","T"," ","/"," ","'","d","a","t","a","'">>,
       <<"M","O","D","E","L","S","_","D","I","R"," ","="," ","P","R","O","J",
         "E","C","T","_","R","O","O","T"," ","/"," ","'","m","o","d","e","l",
         "s","'">>,
       <<"R","E","P","O","R","T","S","_","D","I","R"," ","="," ","P","R","O",
         "J","E","C","T","_","R","O","O","T"," ","/"," ","'","r","e","p","o",
         "r","t","s","'">>,
       <<>>,
       <<"#"," ","D","a","t","a"," ","c","o","n","f","i","g","u","r","a","t",
         "i","o","n">>,
       <<"c","l","a","s","s"," ","D","a","t","a","C","o","n","f","i","g",":">>,
       <<" "," "," "," ","R","A","W","_","D","A","T","A","_","P","A","T","H",
         " ","="," ","D","A","T","A","_","D","I","R"," ","/"," ","'","r","a",
         "w","'">>,
       <<" "," "," "," ","P","R","O","C","E","S","S","E","D","_","D","A","T",
         "A","_","P","A","T","H"," ","="," ","D","A","T","A","_","D","I","R",
         " ","/"," ","'","p","r","o","c","e","s","s","e","d","'">>,
       <<" "," "," "," ">>,
       <<"c","l","a","s","s"," ","M","o","d","e","l","C","o","n","f","i","g",
         ":">>,
       <<" "," "," "," ","S","A","V","E","_","P","A","T","H"," ","="," ","M",
         "O","D","E","L","S","_","D","I","R"," ","/"," ","'","t","r","a","i",
         "n","e","d","'">>,
       <<" "," "," "," ","H","Y","P","E","R","P","A","R","A","M","E","T","E",
         "R","S"," ","="," ","{">>,
       <<" "," "," "," "," "," "," "," ","'","r","a","n","d","o","m","_","s",
         "t","a","t","e","'",":"," ","4","2",",">>,
       <<" "," "," "," "," "," "," "," ","'","t","e","s","t","_","s","i","z",
         "e","'",":"," ","0",".","2">>,
       <<" "," "," "," ","}">>,
       <<>> >>

\* execution_categories of _generate_main_script
ExecutionCategories ==
    <<"data_processing", "model_training", "visualization", "general_code">>

\* The lines one execution category adds to the main script: nothing when
\* the category has no cell, else its label, its cells indented, and "".
CategoryBlock(cells, category) ==
    LET of_category == CellsOf(cells, category)
    IN  IF of_category = <<>> THEN <<>>
        ELSE <<LabelPrefix \o Title(Replace(CategoryText[category], "_", " "))>>
             \o [k \in 1..Len(of_category) |-> Indent(of_category[k].source)]
             \o << <<>> >>

\* The main script with the execution categories taken in document order of
\* their first cell.
GenerateMainScriptDocumentOrder(cells) ==
    LET executed == SelectSeq(cells,
                       LAMBDA cell : \E k \in 1..4 : ExecutionCategories[k] = cell.category)
        first(k) == \A j \in 1..(k - 1) : executed[j].category # executed[k].category
        order == SelectSeq([k \in 1..Len(executed) |->
                              IF first(k) THEN executed[k].category ELSE "repeated"],
                           LAMBDA category : category # "repeated")
        import_cells == CellsOf(cells, "imports")
        blocks[k \in 0..Len(order)] ==
            IF k = 0 THEN <<>> ELSE blocks[k - 1] \o CategoryBlock(cells, order[k])
    IN  JoinLines(<<MainShebang, DocQuotes, MainDocstring, DocQuotes, <<"\n">>>>
                  \o (IF import_cells = <<>> THEN <<>>
                      ELSE [k \in 1..Len(import_cells) |-> import_cells[k].source]
                           \o << <<"\n">> >>)
                  \o <<DefMain, MainBodyDocstring>>
                  \o blocks[Len(order)]
                  \o <<GuardLine, CallMain>>)

\* CodeGenerator._generate_main_script
GenerateMainScript(cells) ==
    LET import_cells == CellsOf(cells, "imports")
        blocks[k \in 0..4] ==
            IF k = 0 THEN <<>>
            ELSE blocks[k - 1] \o CategoryBlock(cells, ExecutionCategories[k])
    IN  JoinLines(<<MainShebang, DocQuotes, MainDocstring, DocQuotes, <<"\n">>>>
                  \o (IF import_cells = <<>> THEN <<>>
                      ELSE [k \in 1..Len(import_cells) |-> import_cells[k].source]
                           \o << <<"\n">> >>)
                  \o <<DefMain, MainBodyDocstring>>
                  \o blocks[4]
                  \o <<GuardLine, CallMain>>)

\* The loop of _generate_functions_module and _generate_training_module:
\* each cell's source, then "".
RECURSIVE SourcesWithBlanks(_)
SourcesWithBlanks(module_cells) ==
    IF module_cells = <<>> THEN <<>>
    ELSE <<Head(module_cells).source, <<>>>> \o SourcesWithBlanks(Tail(module_cells))

\* The functions module with the cells run together, no "" between them.
GenerateFunctionsModuleNoBlanks(function_cells) ==
    JoinLines(<<DocQuotes, FunctionsDocstring, DocQuotes, <<"\n">>>>
              \o [k \in 1..Len(function_cells) |-> function_cells[k].source])

\* CodeGenerator._generate_functions_module
GenerateFunctionsModule(function_cells) ==
    JoinLines(<<DocQuotes, FunctionsDocstring, DocQuotes, <<"\n">>>>
              \o SourcesWithBlanks(function_cells))

\* CodeGenerator._generate_training_module
GenerateTrainingModule(training_cells) ==
    JoinLines(<<DocQuotes, TrainingDocstring, DocQuotes, <<"\n">>>>
              \o SourcesWithBlanks(training_cells))

\* config_content of _generate_config_files
ConfigContent == JoinLines(ConfigLines)

\* config_content with one mark per cell of the notebook added to it.
GenerateConfigContentCounting(parsed_notebook) ==
    ConfigContent \o [k \in 1..Len(parsed_notebook.cells) |-> "#"]

\* CodeGenerator._generate_config_files: the text it writes
GenerateConfigContent(parsed_notebook) == ConfigContent

\* The names of the modules generate_python_files produces, every one
\* whatever the cells are.
GeneratedNamesAll(parsed_notebook) ==
    {"main.py", "functions.py", "training.py", "config.py"}

\* The names of the modules generate_python_files produces: the keys of
\* generated_files.
GeneratedNames(parsed_notebook) ==
    LET categorized_cells == CategorizedKeys(parsed_notebook.cells)
    IN  {"main.py", "config.py"}
        \cup (IF "function_definitions" \in categorized_cells
              THEN {"functions.py"} ELSE {})
        \cup (IF "model_training" \in categorized_cells
              THEN {"training.py"} ELSE {})

\* CodeGenerator.generate_python_files: the text written to each module and
\* the mapping returned, from module name to the path written.
GenerateModules(parsed_notebook, output_dir) ==
    LET cells == parsed_notebook.cells
        names == GeneratedNames(parsed_notebook)
    IN  [written |->
            [name \in names |->
                CASE name = "main.py" -> GenerateMainScript(cells)
                  [] name = "functions.py" ->
                        GenerateFunctionsModule(CellsOf(cells, "function_definitions"))
                  [] name = "training.py" ->
                        GenerateTrainingModule(CellsOf(cells, "model_training"))
                  [] name = "config.py" -> GenerateConfigContent(parsed_notebook)],
         generated_files |-> [name \in names |-> Append(output_dir, name)]]

\* What the git and dvc executables may do in the environment of a run:
\* git is not installed, `git init` fails, `git commit` fails, or all succeed.
GitOutcomes == {"ok", "init_fails", "commit_fails", "missing"}
DvcOutcomes == {"ok", "fails"}

Returned(created) == [raised |-> "none", created |-> created]
Raised(exception, created) == [raised |-> exception, created |-> created]

\* VersionControlManager.initialize_git_repo: an existing .git returns at
\* once; a failing git command is caught, a missing executable is not.
InitializeGitRepo(project_path, present, git) ==
    LET dot_git == Append(project_path, ".git")
        gitignore == Append(project_path, ".gitignore")
        initialised == {dot_git, Append(dot_git, "hooks"), gitignore}
        result(value, created) ==
            [raised |-> "none", created |-> created, result |-> value]
    IN  IF dot_git \in present THEN result(TRUE, {})
        ELSE IF git = "missing"
             THEN [raised |-> "FileNotFoundError", created |-> {}, result |-> FALSE]
        ELSE IF git = "init_fails" THEN result(FALSE, {})
        ELSE IF git = "commit_fails" THEN result(FALSE, initialised)
        ELSE result(TRUE, initialised)

\* setup_git_hooks creating the missing parents of the hooks directory, as
\* mkdir(parents=True, exist_ok=True) would.
SetupGitHooksWithParents(project_path, present) ==
    LET dot_git == Append(project_path, ".git")
        hooks_dir == Append(dot_git, "hooks")
    IN  Returned({dot_git, hooks_dir, Append(hooks_dir, "pre-commit"),
                  Append(hooks_dir, "post-commit")})

\* VersionControlManager.setup_git_hooks: hooks_dir.mkdir(exist_ok=True)
\* has no parents=True, so it raises when .git is not there.
SetupGitHooks(project_path, present) ==
    LET dot_git == Append(project_path, ".git")
        hooks_dir == Append(dot_git, "hooks")
    IN  IF dot_git \notin present THEN Raised("FileNotFoundError", {})
        ELSE Returned({hooks_dir, Append(hooks_dir, "pre-commit"),
                       Append(hooks_dir, "post-commit")})

\* VersionControlManager.initialize_dvc: every failure is caught.
InitializeDvc(project_path, dvc) ==
    IF dvc = "ok" THEN Returned({Append(project_path, ".dvc")}) ELSE Returned({})

\* VersionControlManager.setup_ci_cd_template("github")
SetupCiCdTemplate(project_path) ==
    LET workflows_dir == project_path \o <<".github", "workflows">>
    IN  Returned({Append(project_path, ".github"), workflows_dir,
                  Append(workflows_dir, "ml-pipeline.yml")})

\* VersionControlManager.get_repo_status: a failing git command is caught,
\* a missing executable is not.
GetRepoStatus(git) ==
    IF git = "missing" THEN Raised("FileNotFoundError", {}) ELSE Returned({})

\* The version-control block of convert: the calls in their order, up to
\* the first one that raises.
SetupVersionControl(r, present) ==
    LET project_root == ProjectRoot(r)
        init   == IF r.setup_vcs
                  THEN InitializeGitRepo(project_root, present, r.git)
                  ELSE [raised |-> "none", created |-> {}, result |-> FALSE]
        hooks  == IF r.setup_vcs
                  THEN SetupGitHooks(project_root, present \cup init.created)
                  ELSE Returned({})
        dvc    == IF r.setup_dvc THEN InitializeDvc(project_root, r.dvc)
                  ELSE Returned({})
        ci     == IF r.setup_ci THEN SetupCiCdTemplate(project_root)
                  ELSE Returned({})
        status == GetRepoStatus(r.git)
    IN  IF init.raised # "none" THEN Raised(init.raised, init.created)
        ELSE IF hooks.raised # "none" THEN Raised(hooks.raised, init.created)
        ELSE [raised  |-> status.raised,
              created |-> init.created \cup hooks.created \cup dvc.created
                          \cup ci.created]

(***************************************************************************)
(* Inputs of the convert command (Spec): notebooks of at most MaxCells     *)
(* cells, every combination of the options, and the environments the       *)
(* options make relevant.                                                  *)
(***************************************************************************)
TextDef == <<"d","e","f"," ","f","(",")",":"," ","p","a","s","s">>
TextFit == <<"c","l","f",".","f","i","t","(","X",")">>

ConvertCellPool ==
    { CodeCell(LineImportNumpy), CodeCell(TextDef), CodeCell(TextFit) }

ConvertNbformatPool == {2, 4}

Init ==
    /\ \/ notebook = UndecodableNotebook
       \/ \E nbformat \in ConvertNbformatPool, k \in 0..MaxCells,
             missing \in SUBSET {"nbformat"} :
             \E cells \in [1..k -> ConvertCellPool] :
                 /\ missing # {} => nbformat = 4
                 /\ notebook = Notebook(TRUE, AllNotebookKeys \ missing, nbformat,
                                        NoMetadata, cells)
    /\ parsed = <<>>
    /\ raised = "none"
    /\ ExtractIdle
    /\ report = NoReport
    /\ \E exists, create_structure, analyze_deps, generate_config, setup_vcs,
          setup_dvc, setup_ci, git_exists \in BOOLEAN,
          git \in GitOutcomes, dvc \in DvcOutcomes :
          /\ ~exists => notebook = UndecodableNotebook /\ git = "ok" /\ ~git_exists
          /\ ~(setup_vcs \/ setup_dvc \/ setup_ci) => git = "ok" /\ ~git_exists
          /\ ~setup_dvc => dvc = "ok"
          /\ run = Run(exists, create_structure, analyze_deps, generate_config,
                       setup_vcs, setup_dvc, setup_ci, git, dvc, git_exists)
    /\ pc = "start"
    /\ files = Existing(run)
    /\ generated = <<>>

(***************************************************************************)
(* The stages of convert, in the order of the code.  An exception a stage  *)
(* raises is caught by the handler at the end of the command: the command  *)
(* ends there, and what was written stays.                                 *)
(***************************************************************************)
\* convert: the check of the path and parser.parse_notebook
ConvertParse ==
    /\ pc = "start"
    /\ IF ~run.exists
       THEN /\ pc' = "returned"
            /\ UNCHANGED <<parsed, raised>>
       ELSE LET outcome == ParseNotebookOutcome(notebook)
            IN  /\ parsed' = outcome.value
                /\ raised' = outcome.raised
                /\ pc' = IF outcome.raised = "none" THEN "parsed" ELSE "failed"
    /\ UNCHANGED <<notebook, extractVars, report, run, files, generated>>

\* convert: if create_structure, create_ml_project_structure
ConvertCreateStructure ==
    /\ pc = "parsed"
    /\ files' = IF run.create_structure
                THEN files \cup CreateMlProjectStructure(<<>>, ProjectName).created
                ELSE files
    /\ pc' = "structured"
    /\ UNCHANGED <<parseVars, extractVars, report, run, generated>>

\* convert: generator.generate_python_files(parsed_notebook, output_dir)
ConvertGenerate ==
    /\ pc = "structured"
    /\ files' = files \cup GeneratePythonFiles(parsed[1], OutputDir(run))
    /\ generated' = <<GenerateModules(parsed[1], OutputDir(run))>>
    /\ pc' = "generated"
    /\ UNCHANGED <<parseVars, extractVars, report, run>>

\* convert: if analyze_deps, analyze_dependencies, then the report is
\* written to dependencies_analysis.json and its requirements to
\* requirements.txt beside the output directory.
ConvertAnalyze ==
    /\ pc = "generated"
    /\ IF ~run.analyze_deps
       THEN /\ pc' = "analyzed"
            /\ UNCHANGED <<raised, report, files>>
       ELSE IF AnalyzeDependenciesRaised(parsed[1].cells) # "none"
       THEN /\ raised' = AnalyzeDependenciesRaised(parsed[1].cells)
            /\ pc' = "failed"
            /\ UNCHANGED <<report, files>>
       ELSE \E dependencies \in AnalyzeDependenciesOutcomes(parsed[1].cells) :
               LET deps_file == Append(OutputDir(run), "dependencies_analysis.json")
                   reqs_file == Append(ProjectRoot(run), "requirements.txt")
               IN  /\ report' = <<dependencies>>
                   /\ IF JsonDumpRaises(ReportTypes)
                      THEN /\ files' = files \cup {deps_file}
                           /\ raised' = "TypeError"
                           /\ pc' = "failed"
                      ELSE /\ files' = files \cup {deps_file, reqs_file}
                           /\ raised' = raised
                           /\ pc' = "analyzed"
    /\ UNCHANGED <<notebook, parsed, extractVars, run, generated>>

\* convert: if generate_config, ConfigManager(project_root / 'config')
\* and create_ml_config
ConvertConfig ==
    /\ pc = "analyzed"
    /\ files' = IF run.generate_config
                THEN files \cup CreateMlConfig(Append(ProjectRoot(run), "config"))
                ELSE files
    /\ pc' = "configured"
    /\ UNCHANGED <<parseVars, extractVars, report, run, generated>>

\* The version-control block going on to the summary after an exception,
\* as it would with no handler around the stages.
ConvertVcsGoingOn ==
    /\ pc = "configured"
    /\ IF ~(run.setup_vcs \/ run.setup_dvc \/ run.setup_ci)
       THEN UNCHANGED <<raised, files>>
       ELSE LET outcome == SetupVersionControl(run, files)
            IN  /\ files' = files \cup outcome.created
                /\ raised' = outcome.raised
    /\ pc' = "versioned"
    /\ UNCHANGED <<notebook, parsed, extractVars, report, run, generated>>

\* convert: if setup_vcs or setup_dvc or setup_ci, the version-control block
ConvertVcs ==
    /\ pc = "configured"
    /\ IF ~(run.setup_vcs \/ run.setup_dvc \/ run.setup_ci)
       THEN /\ pc' = "versioned"
            /\ UNCHANGED <<raised, files>>
       ELSE LET outcome == SetupVersionControl(run, files)
            IN  /\ files' = files \cup outcome.created
                /\ raised' = outcome.raised
                /\ pc' = IF outcome.raised = "none" THEN "versioned" ELSE "failed"
    /\ UNCHANGED <<notebook, parsed, extractVars, report, run, generated>>

\* convert: the summary of a successful conversion
ConvertSummary ==
    /\ pc = "versioned"
    /\ pc' = "done"
    /\ UNCHANGED <<parseVars, extractVars, report, run, files, generated>>

Next ==
    \/ ConvertParse
    \/ ConvertCreateStructure
    \/ ConvertGenerate
    \/ ConvertAnalyze
    \/ ConvertConfig
    \/ ConvertVcs
    \/ ConvertSummary

Spec == Init /\ [][Next]_vars

(***************************************************************************)
(* Claims about the convert command (Spec).                                *)
(***************************************************************************)
\* The document is one parse_notebook rejects.
Malformed(nb) == ~nb.decodable \/ Get(nb, "nbformat", 4) \notin {4, 5}

\* C2: a document that cannot be decoded, or whose nbformat is not 4 or 5,
\* makes parse_notebook raise ValueError with no result at all, and convert
\* then ends with nothing generated; and in every run, as long as parsing
\* has not succeeded, no directory or file has been created.
C2_MalformedRejectedNothingGenerated ==
    /\ (run.exists /\ pc # "start" /\ Malformed(notebook)) =>
          /\ raised = "ValueError"
          /\ parsed = <<>>
          /\ pc = "failed"
          /\ files = Existing(run)
    /\ parsed = <<>> => files = Existing(run)

\* A document with nbformat 2 was given to a run with every generating
\* option on, and the command ended at the parse.
C2_Witness ==
    /\ run.exists
    /\ run.create_structure /\ run.analyze_deps /\ run.generate_config
    /\ notebook.decodable
    /\ "nbformat" \in notebook.keys
    /\ notebook.nbformat = 2
    /\ Len(notebook.cells) > 0
    /\ pc = "failed"
    /\ raised = "ValueError"
    /\ files = {}

(***************************************************************************)
(* Claims about the dependency report (SpecDeps).                          *)
(***************************************************************************)
\* analyze_dependencies has been called on the parsed cells: it returned a
\* report or let an exception through.
AnalysisCalled == parsed # <<>> /\ (report # NoReport \/ raised # "none")

\* The sequence without its i-th element.
Without(cells, i) == SubSeq(cells, 1, i - 1) \o SubSeq(cells, i + 1, Len(cells))

\* A code cell whose source ast.parse does not accept and in which the
\* fallback patterns find nothing.
Unparseable(cell) ==
    /\ cell.cell_type = "code"
    /\ PathOf(cell.source) # "ast"
    /\ ExtractImportsRegex(cell.source) = {}

\* C11 (as claimed): whenever the analysed sequence holds a code cell that
\* fails structural parsing and matches no fallback pattern, the analysis
\* raises nothing and returns the report of the sequence without that cell.
C11_UnparseableCellContributesNothing ==
    AnalysisCalled =>
        \A i \in 1..Len(parsed[1].cells) :
            Unparseable(parsed[1].cells[i]) =>
                /\ raised = "none"
                /\ report # NoReport
                /\ Report.all_dependencies =
                      CollectImports(Without(parsed[1].cells, i), {})

\* The identifiers the code cells of the analysed sequence import.
ImportedByCodeCells ==
    UNION {ExtractImports(parsed[1].cells[i].source) :
             i \in {j \in 1..Len(parsed[1].cells) :
                      parsed[1].cells[j].cell_type = "code"}}

\* C12: the categorized mapping of a report has exactly the four category
\* keys; each value is the set of the identifiers of all_dependencies that
\* satisfy the category's predicate; an imported identifier that satisfies
\* no predicate is in no category and is in all_dependencies.
C12_CategorizedIsFixedPartition ==
    report # NoReport =>
        /\ DOMAIN Report.categorized =
              {"standard_lib", "data_science", "ml_frameworks", "visualization"}
        /\ \A category \in DOMAIN Report.categorized :
              Report.categorized[category] =
                 {lib \in Report.all_dependencies : CheckFunc(category, lib)}
        /\ \A lib \in ImportedByCodeCells :
              (\A category \in ImportCategories : ~CheckFunc(category, lib)) =>
                 /\ lib \in Report.all_dependencies
                 /\ \A category \in DOMAIN Report.categorized :
                       lib \notin Report.categorized[category]

\* `from a.b.c import x` and `import os, sys` were analysed: a is in no
\* category and in all_dependencies, os and sys are in standard_lib.
C12_Witness ==
    /\ report # NoReport
    /\ Report.all_dependencies = {<<"a">>, <<"o","s">>, <<"s","y","s">>}
    /\ Report.categorized["standard_lib"] = {<<"o","s">>, <<"s","y","s">>}
    /\ Report.categorized["data_science"] = {}
    /\ Report.categorized["ml_frameworks"] = {}
    /\ Report.categorized["visualization"] = {}

C14_ReportIsWrittenWithoutRaising ==
    (run.analyze_deps /\ report # NoReport) =>
        /\ raised = "none"
        /\ pc # "failed"
        /\ Append(OutputDir(run), "dependencies_analysis.json") \in files
        /\ Append(ProjectRoot(run), "requirements.txt") \in files

(***************************************************************************)
(* Inputs of the module generation (SpecGenerate): notebooks of at most    *)
(* MaxGenCells cells, with a cell of every category the generator reads.   *)
(***************************************************************************)
TextClean == <<"d","f"," ","="," ","c","l","e","a","n","(","d","f",")">>
TextShow == <<"p","l","t",".","s","h","o","w","(",")">>
TextLoop == <<"f","o","r"," ","i"," ","i","n"," ","x",":","\n","\n"," "," "," "," ","y"," ","="," ","i">>
TextDefBody == <<"d","e","f"," ","g","(",")",":","\n"," "," "," "," ","r","e","t","u","r","n"," ","1">>
TextCompile == <<"m","o","d","e","l",".","c","o","m","p","i","l","e","(",")">>
TextAssert == <<"a","s","s","e","r","t"," ","x">>

GenCellPool ==
    { CodeCell(LineImportNumpy), CodeCell(LineImportOsSys), CodeCell(TextDef),
      CodeCell(TextDefBody), CodeCell(TextCompile),
      CodeCell(TextClean),
      CodeCell(TextFit), CodeCell(TextShow), CodeCell(TextLoop),
      CodeCell(TextAssert), CodeCell(<<" ">>),
      RawCell(AllCellKeys, "raw", StrSource(TextImportOs), NoMetadata, <<>>),
      RawCell(AllCellKeys, "markdown", StrSource(TextSetup), NoMetadata, <<>>) }

InitGenerate ==
    /\ \E k \in 0..MaxGenCells : \E cells \in [1..k -> GenCellPool] :
          notebook = Notebook(TRUE, AllNotebookKeys, 4, NoMetadata, cells)
    /\ parsed = <<>>
    /\ raised = "none"
    /\ ExtractIdle
    /\ report = NoReport
    /\ ConvertIdle

\* generator.generate_python_files(parsed_notebook, output_dir), called once
\* with the output directory itself
CallGeneratePythonFiles ==
    /\ parsed # <<>>
    /\ generated = <<>>
    /\ generated' = <<GenerateModules(parsed[1], <<>>)>>
    /\ files' = files \cup GeneratePythonFiles(parsed[1], <<>>)
    /\ parsed' = <<[parsed[1] EXCEPT !.cells = CellsAfterGeneration(@)]>>
    /\ UNCHANGED <<notebook, raised, extractVars, report, run, pc>>

NextGenerate == ParseNotebook \/ CallGeneratePythonFiles

SpecGenerate == InitGenerate /\ [][NextGenerate]_vars

(***************************************************************************)
(* Claims about generate_python_files (SpecGenerate).                      *)
(***************************************************************************)
\* generate_python_files has returned.
GenerateCalled == parsed # <<>> /\ generated # <<>>

\* Some parsed cell has the category.
HasCategory(category) ==
    \E i \in 1..Len(parsed[1].cells) : parsed[1].cells[i].category = category

\* C15: generate_python_files always produces main.py and config.py,
\* produces functions.py exactly when some cell has category
\* function_definitions and training.py exactly when some cell has category
\* model_training, writes nothing else, and returns a mapping with exactly
\* one entry per module written, the path of that module.
C15_ModulesProducedByCategory ==
    GenerateCalled =>
        LET written == DOMAIN generated[1].written
            generated_files == generated[1].generated_files
        IN  /\ "main.py" \in written
            /\ "config.py" \in written
            /\ "functions.py" \in written <=> HasCategory("function_definitions")
            /\ "training.py" \in written <=> HasCategory("model_training")
            /\ written \subseteq {"main.py", "functions.py", "training.py", "config.py"}
            /\ DOMAIN generated_files = written
            /\ \A name \in written :
                  /\ generated_files[name] = <<name>>
                  /\ generated_files[name] \in files

\* A notebook with a function_definitions cell and no model_training cell
\* has been generated: functions.py is produced, training.py is not.
C15_Witness ==
    /\ GenerateCalled
    /\ HasCategory("function_definitions")
    /\ ~HasCategory("model_training")
    /\ DOMAIN generated[1].written = {"main.py", "functions.py", "config.py"}


\* The non-empty lines of a list of lines, in order.
NonBlank(lines) == SelectSeq(lines, LAMBDA line : line # <<>>)

\* The lines (split at line feeds) of the sources of the cells, cell after
\* cell, each line with the prefix before it.
RECURSIVE LinesOfCells(_, _)
LinesOfCells(cells, prefix) ==
    IF cells = <<>> THEN <<>>
    ELSE LET lines == Split(Head(cells).source, "\n")
         IN  [k \in 1..Len(lines) |-> prefix \o lines[k]]
             \o LinesOfCells(Tail(cells), prefix)

\* The parsed cells of one category, in document order.
OfCategory(category) ==
    SelectSeq(parsed[1].cells, LAMBDA cell : cell.category = category)

\* The label comment of each execution category, as it is to appear.
BlockLabel ==
    [data_processing |-> <<" "," "," "," ","#"," ","D","a","t","a"," ","P","r","o","c","e","s","s","i","n","g">>,
     model_training |-> <<" "," "," "," ","#"," ","M","o","d","e","l"," ","T","r","a","i","n","i","n","g">>,
     visualization |-> <<" "," "," "," ","#"," ","V","i","s","u","a","l","i","z","a","t","i","o","n">>,
     general_code |-> <<" "," "," "," ","#"," ","G","e","n","e","r","a","l"," ","C","o","d","e">>]

FourSpaces == <<" ", " ", " ", " ">>

\* One execution category's block: nothing without a cell of the category,
\* else its label and the lines of its cells in document order.
BlockLines(category) ==
    IF OfCategory(category) = <<>> THEN <<>>
    ELSE <<BlockLabel[category]>> \o LinesOfCells(OfCategory(category), FourSpaces)

\* The lines of main.py as written.
MainLines == Split(generated[1].written["main.py"], "\n")

\* Where the line occurs in the lines.
Occurrences(lines, line) == {k \in DOMAIN lines : lines[k] = line}

EntryPointLine == <<"d","e","f"," ","m","a","i","n","(",")",":">>

GuardedInvocationLine == <<"i","f"," ","_","_","n","a","m","e","_","_"," ","=","="," ","\"","_","_","m","a","i","n","_","_","\"",":">>

InvocationLine == <<" "," "," "," ","m","a","i","n","(",")">>

\* The parsed cells are the three of the example, in its document order.
ExampleCells ==
    /\ Len(parsed[1].cells) = 3
    /\ parsed[1].cells[1].source = TextShow
    /\ parsed[1].cells[2].source = TextClean
    /\ parsed[1].cells[3].source = TextFit

\* The lines are those of a main module assembled in the fixed order.
MainAssembledInOrder(lines) ==
    /\ Cardinality(Occurrences(lines, EntryPointLine)) = 1
    /\ Cardinality(Occurrences(lines, GuardedInvocationLine)) = 1
    /\ Occurrences(lines, InvocationLine) = {Len(lines)}
    /\ LET entry == CHOOSE k \in Occurrences(lines, EntryPointLine) : TRUE
           guard == CHOOSE k \in Occurrences(lines, GuardedInvocationLine) : TRUE
       IN  /\ entry < guard
           /\ guard = Len(lines) - 1
           /\ NonBlank(SubSeq(lines, 5, entry - 1))
                 = NonBlank(LinesOfCells(OfCategory("imports"), <<>>))
           /\ NonBlank(SubSeq(lines, entry + 2, guard - 1))
                 = BlockLines("data_processing") \o BlockLines("model_training")
                   \o BlockLines("visualization") \o BlockLines("general_code")
           /\ ExampleCells =>
                 NonBlank(SubSeq(lines, entry + 2, guard - 1))
                    = <<BlockLabel.data_processing, FourSpaces \o TextClean,
                        BlockLabel.model_training, FourSpaces \o TextFit,
                        BlockLabel.visualization, FourSpaces \o TextShow>>

\* C16: main.py holds, in this order, the sources of the imports cells in
\* document order; one `def main():`; the blocks of data_processing,
\* model_training, visualization and general_code in that order whatever
\* the document order, each its label then its cells in document order; one
\* `if __name__ == "__main__":` followed by the call of main() as last line.
\* Cells in document order visualization, data_processing, model_training
\* come out as data_processing, model_training, visualization.
C16_MainAssemblyOrder ==
    GenerateCalled => MainAssembledInOrder(MainLines)

\* The example notebook (visualization, data_processing, model_training in
\* document order) has been generated.
C16_Witness ==
    /\ GenerateCalled
    /\ ExampleCells
    /\ parsed[1].cells[1].category = "visualization"
    /\ parsed[1].cells[2].category = "data_processing"
    /\ parsed[1].cells[3].category = "model_training"


\* One execution category's block with its closing empty line.
ClosedBlockLines(category) ==
    IF OfCategory(category) = <<>> THEN <<>> ELSE BlockLines(category) \o << <<>> >>

\* The lines from the first after the entry point's docstring to the last
\* before the empty line that precedes the guarded invocation.
BodyOf(lines) ==
    SubSeq(lines, (CHOOSE k \in Occurrences(lines, EntryPointLine) : TRUE) + 2,
                  (CHOOSE k \in Occurrences(lines, GuardedInvocationLine) : TRUE) - 2)

MainBodyLines == BodyOf(MainLines)

\* The source occupies the body lines from + 1 .. from + n, n its number of
\* lines: line k of them is four spaces and line k of the source.
IndentedAt(body, lines, from) ==
    /\ from + Len(lines) <= Len(body)
    /\ \A k \in 1..Len(lines) :
          /\ Len(body[from + k]) = 4 + Len(lines[k])
          /\ SubSeq(body[from + k], 1, 4) = FourSpaces
          /\ SubSeq(body[from + k], 5, 4 + Len(lines[k])) = lines[k]

\* The body is, block after block, the label, the cells' lines each after
\* four spaces, and one empty line; and every execution cell is in it whole.
EveryLineIndented(body) ==
    /\ body = ClosedBlockLines("data_processing") \o ClosedBlockLines("model_training")
              \o ClosedBlockLines("visualization") \o ClosedBlockLines("general_code")
    /\ \A i \in 1..Len(parsed[1].cells) :
          parsed[1].cells[i].category \in {"data_processing", "model_training", "visualization", "general_code"}
             => \E from \in 0..Len(body) :
                   IndentedAt(body, Split(parsed[1].cells[i].source, "\n"), from)

\* C17: in main.py every line of every execution-category cell's source,
\* empty lines included, is written with four spaces before it, and the
\* cell's lines keep their number and order: the body of main() is, block
\* after block, the label, the cells' lines so prefixed, and one empty line.
C17_EveryLineIndentedOnce ==
    GenerateCalled => EveryLineIndented(MainBodyLines)

\* The three lines stand one after the other in the body.
ThreeLinesIn(body, first, second, third) ==
    \E from \in 0..(Len(body) - 3) :
       /\ body[from + 1] = first
       /\ body[from + 2] = second
       /\ body[from + 3] = third

\* A cell of three lines, the second empty and the third nested, has been
\* written into main(): three lines, the empty one as four spaces.
C17_Witness ==
    /\ GenerateCalled
    /\ \E i \in 1..Len(parsed[1].cells) :
          /\ parsed[1].cells[i].source = TextLoop
          /\ parsed[1].cells[i].category = "general_code"
    /\ ThreeLinesIn(MainBodyLines, <<" "," "," "," ","f","o","r"," ","i"," ","i","n"," ","x",":">>, FourSpaces, <<" "," "," "," "," "," "," "," ","y"," ","="," ","i">>)

\* The header each flat module starts with, up to where the first cell's
\* source begins.
FunctionsHeader ==
    <<"\"","\"","\"","\n","U","t","i","l","i","t","y"," ","f","u","n","c","t","i","o","n","s"," ","g","e","n","e","r","a","t","e","d"," ","f","r","o","m"," ","J","u","p","y","t","e","r"," ","n","o","t","e","b","o","o","k","\n","\"","\"","\"","\n","\n","\n">>

TrainingHeader ==
    <<"\"","\"","\"","\n","T","r","a","i","n","i","n","g"," ","m","o","d","u","l","e"," ","f","o","r"," ","m","a","c","h","i","n","e"," ","l","e","a","r","n","i","n","g"," ","m","o","d","e","l","s","\n","\"","\"","\"","\n","\n","\n">>

\* The sources one after the other as they stand, an empty line between
\* two of them and a line feed after the last.
RECURSIVE SeparatedByOneBlankLine(_)
SeparatedByOneBlankLine(module_cells) ==
    IF Len(module_cells) = 1 THEN Head(module_cells).source \o <<"\n">>
    ELSE Head(module_cells).source \o <<"\n", "\n">>
         \o SeparatedByOneBlankLine(Tail(module_cells))

\* C18: functions.py is its documentation header followed by the sources
\* of exactly the function_definitions cells, in document order, character
\* for character (no indentation, no entry point around them), one empty
\* line between consecutive cells; training.py likewise with its own header
\* and the model_training cells.
C18_FlatModulesAreHeaderAndSources ==
    GenerateCalled =>
        /\ HasCategory("function_definitions") =>
              generated[1].written["functions.py"]
                 = FunctionsHeader \o SeparatedByOneBlankLine(OfCategory("function_definitions"))
        /\ HasCategory("model_training") =>
              generated[1].written["training.py"]
                 = TrainingHeader \o SeparatedByOneBlankLine(OfCategory("model_training"))

\* Two different function cells, the first of two lines, and a training
\* cell between them have been generated.
C18_Witness ==
    /\ GenerateCalled
    /\ Len(parsed[1].cells) = 3
    /\ parsed[1].cells[1].source = TextDefBody
    /\ parsed[1].cells[2].source = TextFit
    /\ parsed[1].cells[3].source = TextDef
    /\ Len(OfCategory("function_definitions")) = 2
    /\ Len(OfCategory("model_training")) = 1


\* The text of config.py as the template gives it: the project-root
\* constant, the directories under it, the data paths, the model path and
\* the hyperparameters random_state 42 and test_size 0.2.
ConfigTemplate ==
    <<"\"", "\"", "\"", "C", "o", "n", "f", "i", "g", "u", "r", "a", "t", "i",
      "o", "n", " ", "f", "i", "l", "e", " ", "f", "o", "r", " ", "M", "L",
      " ", "p", "r", "o", "j", "e", "c", "t", "\"", "\"", "\"", "\n", "\n", "i",
      "m", "p", "o", "r", "t", " ", "o", "s", "\n", "f", "r", "o", "m", " ",
      "p", "a", "t", "h", "l", "i", "b", " ", "i", "m", "p", "o", "r", "t",
      " ", "P", "a", "t", "h", "\n", "\n", "#", " ", "P", "r", "o", "j", "e",
      "c", "t", " ", "s", "t", "r", "u", "c", "t", "u", "r", "e", "\n", "P",
      "R", "O", "J", "E", "C", "T", "_", "R", "O", "O", "T", " ", "=", " ",
      "P", "a", "t", "h", "(", "_", "_", "f", "i", "l", "e", "_", "_", ")",
      ".", "p", "a", "r", "e", "n", "t", "\n", "D", "A", "T", "A", "_", "D",
      "I", "R", " ", "=", " ", "P", "R", "O", "J", "E", "C", "T", "_", "R",
      "O", "O", "T", " ", "/", " ", "'", "d", "a", "t", "a", "'", "\n", "M",
      "O", "D", "E", "L", "S", "_", "D", "I", "R", " ", "=", " ", "P", "R",
      "O", "J", "E", "C", "T", "_", "R", "O", "O", "T", " ", "/", " ", "'",
      "m", "o", "d", "e", "l", "s", "'", "\n", "R", "E", "P", "O", "R", "T",
      "S", "_", "D", "I", "R", " ", "=", " ", "P", "R", "O", "J", "E", "C",
      "T", "_", "R", "O", "O", "T", " ", "/", " ", "'", "r", "e", "p", "o",
      "r", "t", "s", "'", "\n", "\n", "#", " ", "D", "a", "t", "a", " ", "c",
      "o", "n", "f", "i", "g", "u", "r", "a", "t", "i", "o", "n", "\n", "c",
      "l", "a", "s", "s", " ", "D", "a", "t", "a", "C", "o", "n", "f", "i",
      "g", ":", "\n", " ", " ", " ", " ", "R", "A", "W", "_", "D", "A", "T",
      "A", "_", "P", "A", "T", "H", " ", "=", " ", "D", "A", "T", "A", "_",
      "D", "I", "R", " ", "/", " ", "'", "r", "a", "w", "'", "\n", " ", " ",
      " ", " ", "P", "R", "O", "C", "E", "S", "S", "E", "D", "_", "D", "A",
      "T", "A", "_", "P", "A", "T", "H", " ", "=", " ", "D", "A", "T", "A",
      "_", "D", "I", "R", " ", "/", " ", "'", "p", "r", "o", "c", "e", "s",
      "s", "e", "d", "'", "\n", " ", " ", " ", " ", "\n", "c", "l", "a", "s",
      "s", " ", "M", "o", "d", "e", "l", "C", "o", "n", "f", "i", "g", ":",
      "\n", " ", " ", " ", " ", "S", "A", "V", "E", "_", "P", "A", "T", "H",
      " ", "=", " ", "M", "O", "D", "E", "L", "S", "_", "D", "I", "R", " ",
      "/", " ", "'", "t", "r", "a", "i", "n", "e", "d", "'", "\n", " ", " ",
      " ", " ", "H", "Y", "P", "E", "R", "P", "A", "R", "A", "M", "E", "T",
      "E", "R", "S", " ", "=", " ", "{", "\n", " ", " ", " ", " ", " ", " ",
      " ", " ", "'", "r", "a", "n", "d", "o", "m", "_", "s", "t", "a", "t",
      "e", "'", ":", " ", "4", "2", ",", "\n", " ", " ", " ", " ", " ", " ",
      " ", " ", "'", "t", "e", "s", "t", "_", "s", "i", "z", "e", "'", ":",
      " ", "0", ".", "2", "\n", " ", " ", " ", " ", "}", "\n">>

\* C19: the content written to config.py does not depend on the notebook:
\* whatever notebook was parsed and whichever run wrote it, it is the fixed
\* template, character for character.
C19_ConfigIsTheFixedTemplate ==
    GenerateCalled =>
        /\ generated[1].written["config.py"] = ConfigTemplate
        /\ Contains(generated[1].written["config.py"], <<"P","R","O","J","E","C","T","_","R","O","O","T"," ","="," ","P","a","t","h","(","_","_","f","i","l","e","_","_",")",".","p","a","r","e","n","t">>)
        /\ Contains(generated[1].written["config.py"], <<"'","r","a","n","d","o","m","_","s","t","a","t","e","'",":"," ","4","2">>)
        /\ Contains(generated[1].written["config.py"], <<"'","t","e","s","t","_","s","i","z","e","'",":"," ","0",".","2">>)

\* config.py has been written for a notebook of two different cells.
C19_Witness ==
    /\ GenerateCalled
    /\ Len(parsed[1].cells) = 2
    /\ parsed[1].cells[1].source # parsed[1].cells[2].source
    /\ "config.py" \in DOMAIN generated[1].written


(***************************************************************************)
(* Claim about the default notebook version (SpecParse).                   *)
(***************************************************************************)
\* The document with its nbformat field set to 4.
WithNbformat4(nb) ==
    [nb EXCEPT !.keys = @ \cup {"nbformat"}, !.nbformat = 4]

\* C20: a document that has no nbformat field is read as major version 4:
\* parse_notebook does not reject it, and what it returns is what it
\* returns for the same document with nbformat 4.
C20_MissingNbformatDefaultsTo4 ==
    (ParseCalled /\ notebook.decodable /\ "nbformat" \notin notebook.keys) =>
        /\ raised = "none"
        /\ parsed # <<>>
        /\ ParseNotebookOutcome(WithNbformat4(notebook)).raised = "none"
        /\ parsed = ParseNotebookOutcome(WithNbformat4(notebook)).value
        /\ Len(parsed[1].cells) = Len(notebook.cells)

\* A document without nbformat, holding cells and kernel metadata, has
\* been parsed.
C20_Witness ==
    /\ ParseCalled
    /\ notebook.decodable
    /\ "nbformat" \notin notebook.keys
    /\ parsed # <<>>
    /\ Len(parsed[1].cells) > 0
    /\ parsed[1].kernel_info # <<>>


(***************************************************************************)
(* Claim about markdown headings outside the vocabulary (SpecClassify).    *)
(***************************************************************************)
\* The text holds a heading marker: one of its lines starts with "#".
HasHeadingMarker(text) ==
    \E k \in 1..Len(text) : text[k] = "#" /\ (k = 1 \/ text[k - 1] = "\n")

\* C21: a non-empty markdown cell that holds a heading marker and matches no
\* vocabulary group is section_header, on whichever line the heading
\* stands; a markdown cell is documentation only if it is non-empty and
\* holds no heading marker.
C21_HeadingAnywhereIsSectionHeader ==
    \A i \in 1..Len(ParsedCells) :
        ParsedCells[i].cell_type = "markdown" =>
            LET text == ParsedCells[i].source
                hits == RulesMatched(MarkdownRuleOrder, text)
            IN  /\ (~IsBlank(text) /\ hits = {} /\ HasHeadingMarker(text)) =>
                      ParsedCells[i].category = "section_header"
                /\ ParsedCells[i].category = "documentation" =>
                      (~IsBlank(text) /\ ~HasHeadingMarker(text))


(***************************************************************************)
(* The analyzer and the generator on one parsed notebook (SpecShared):     *)
(* after the parse the two calls are made once each, in either order.      *)
(***************************************************************************)
SharedCellPool ==
    { CodeCell(LineImportNumpy),
      CodeCell(JoinLines(<<LineImportPandasAs, LineFromSklearn>>)),
      CodeCell(JoinLines(<<LineMagic, LineImportPandasAs>>)),
      CodeCell(TextDef), CodeCell(TextFit), CodeCell(TextLoop),
      CodeCell(LineDeep),
      RawCell(AllCellKeys, "markdown", StrSource(TextSetup), NoMetadata, <<>>) }

InitShared ==
    /\ \E k \in 0..MaxCells : \E cells \in [1..k -> SharedCellPool] :
          notebook = Notebook(TRUE, AllNotebookKeys, 4, NoMetadata, cells)
    /\ parsed = <<>>
    /\ raised = "none"
    /\ ExtractIdle
    /\ report = NoReport
    /\ ConvertIdle

NextShared == ParseNotebook \/ AnalyzeDependencies \/ CallGeneratePythonFiles

SpecShared == InitShared /\ [][NextShared]_vars

\* What parse_notebook returned for the notebook file, before any other call.
AsParsed == ParseNotebookOutcome(notebook).value

PresentInMetadata(metadata, field) ==
    \/ /\ field \in {"name", "display_name", "language"}
       /\ "kernelspec" \in metadata.keys
       /\ field \in metadata.kernelspec.keys
    \/ /\ field \in {"name", "version"}
       /\ "language_info" \in metadata.keys
       /\ field \in metadata.language_info.keys

\* C23: for metadata lacking kernelspec, language_info or any of their
\* fields, the kernel summary is returned without an exception, a field
\* absent from the metadata is absent from the summary, and name,
\* display_name, language and version are each in the summary whenever the
\* metadata holds them.
C23_AbsentKernelFieldsAreOmitted ==
    (ParseCalled /\ notebook.decodable /\ Get(notebook, "nbformat", 4) \in SupportedVersions) =>
        /\ raised = "none"
        /\ parsed # <<>>
        /\ \A field \in {"name", "display_name", "language", "version"} :
              field \in DOMAIN parsed[1].kernel_info
                 <=> PresentInMetadata(Get(notebook, "metadata", NoMetadata), field)


(***************************************************************************)
(* Claim about the fields of a parsed cell (SpecParse).                    *)
(***************************************************************************)
\* The cells of the notebook file.
InputCells == Get(notebook, "cells", <<>>)

\* The two input cells are of the same kind and hold the same source.
SameKindAndSource(a, b) ==
    /\ Get(a, "cell_type", "code") = Get(b, "cell_type", "code")
    /\ ("source" \in a.keys) = ("source" \in b.keys)
    /\ "source" \in a.keys => a.source = b.source

\* C24: every cell parse_notebook returns has exactly the fields cell_type,
\* source, metadata, outputs and category; its outputs are the input cell's
\* outputs when the kind is code and empty for every other kind; its
\* metadata is the input cell's, and two cells of the same kind and source
\* get the same source and category whatever their metadata.
C24_CellFieldsAndPassthrough ==
    (ParseCalled /\ parsed # <<>>) =>
        /\ Len(parsed[1].cells) = Len(InputCells)
        /\ \A i \in 1..Len(parsed[1].cells) :
              /\ DOMAIN parsed[1].cells[i] = {"cell_type", "source", "metadata", "outputs", "category"}
              /\ parsed[1].cells[i].outputs
                    = IF Get(InputCells[i], "cell_type", "code") = "code"
                          THEN Get(InputCells[i], "outputs", <<>>)
                          ELSE <<>>
              /\ parsed[1].cells[i].metadata = Get(InputCells[i], "metadata", NoMetadata)
              /\ \A j \in 1..Len(parsed[1].cells) :
                    SameKindAndSource(InputCells[i], InputCells[j]) =>
                       /\ parsed[1].cells[i].source = parsed[1].cells[j].source
                       /\ parsed[1].cells[i].category = parsed[1].cells[j].category

\* A notebook of two markdown cells of the same source, one with metadata
\* and outputs and one without, has been parsed: both have no outputs.
C24_Witness ==
    /\ ParseCalled
    /\ parsed # <<>>
    /\ Len(InputCells) = 2
    /\ InputCells[1].cell_type = "markdown"
    /\ InputCells[1].outputs # <<>>
    /\ InputCells[1].metadata = TaggedMetadata
    /\ InputCells[2].cell_type = "markdown"
    /\ InputCells[2].metadata = NoMetadata
    /\ parsed[1].cells[1].outputs = <<>>
    /\ parsed[1].cells[1].metadata = TaggedMetadata
    /\ parsed[1].cells[1].category = parsed[1].cells[2].category
    /\ parsed[1].cells[1].source = parsed[1].cells[2].source


(***************************************************************************)
(* Claim about which cells reach which module (SpecGenerate).              *)
(***************************************************************************)
\* How often the line stands in the lines.
Count(lines, line) == Cardinality({k \in DOMAIN lines : lines[k] = line})

\* The two lists hold the same non-empty lines, each as often in the one
\* as in the other.
SameLines(a, b) ==
    \A line \in {a[k] : k \in DOMAIN a} \cup {b[k] : k \in DOMAIN b} :
        line # <<>> => Count(a, line) = Count(b, line)

\* The lines the parsed cells are to leave in main.py, cell after cell in
\* document order: an imports cell its lines, a cell of an execution
\* category its lines after four spaces, any other cell nothing.
RECURSIVE MainLinesOfCells(_)
MainLinesOfCells(cells) ==
    IF cells = <<>> THEN <<>>
    ELSE (IF Head(cells).category = "imports"
              THEN LinesOfCells(<<Head(cells)>>, <<>>)
          ELSE IF Head(cells).category \in {"data_processing", "model_training", "visualization", "general_code"}
              THEN LinesOfCells(<<Head(cells)>>, FourSpaces)
          ELSE <<>>)
         \o MainLinesOfCells(Tail(cells))

\* The label comments of the execution categories that have a cell.
LabelsPresent ==
    (IF HasCategory("data_processing") THEN <<BlockLabel.data_processing>> ELSE <<>>)
    \o (IF HasCategory("model_training") THEN <<BlockLabel.model_training>> ELSE <<>>)
    \o (IF HasCategory("visualization") THEN <<BlockLabel.visualization>> ELSE <<>>)
    \o (IF HasCategory("general_code") THEN <<BlockLabel.general_code>> ELSE <<>>)

\* The lines main.py holds whatever the cells are.
MainFixedLines ==
    <<<<"#","!","/","u","s","r","/","b","i","n","/","e","n","v"," ","p","y","t","h","o","n","3">>,
      <<"\"","\"","\"">>,
      <<"M","a","i","n"," ","e","x","e","c","u","t","i","o","n"," ","s","c","r","i","p","t"," ","g","e","n","e","r","a","t","e","d"," ","f","r","o","m"," ","J","u","p","y","t","e","r"," ","n","o","t","e","b","o","o","k">>,
      <<"\"","\"","\"">>,
      EntryPointLine,
      <<" "," "," "," ","\"","\"","\"","M","a","i","n"," ","e","x","e","c","u","t","i","o","n"," ","f","u","n","c","t","i","o","n","\"","\"","\"">>,
      GuardedInvocationLine,
      InvocationLine>>

FunctionsFixedLines ==
    <<<<"\"","\"","\"">>,
      <<"U","t","i","l","i","t","y"," ","f","u","n","c","t","i","o","n","s"," ","g","e","n","e","r","a","t","e","d"," ","f","r","o","m"," ","J","u","p","y","t","e","r"," ","n","o","t","e","b","o","o","k">>,
      <<"\"","\"","\"">>>>

TrainingFixedLines ==
    <<<<"\"","\"","\"">>,
      <<"T","r","a","i","n","i","n","g"," ","m","o","d","u","l","e"," ","f","o","r"," ","m","a","c","h","i","n","e"," ","l","e","a","r","n","i","n","g"," ","m","o","d","e","l","s">>,
      <<"\"","\"","\"">>>>

\* The lines of a generated module, none when the module was not written.
WrittenLines(name) ==
    IF name \in DOMAIN generated[1].written
        THEN Split(generated[1].written[name], "\n") ELSE <<>>

\* C25: main.py holds, besides its fixed lines and the labels of the
\* categories that have a cell, the source of each imports, data_processing,
\* model_training, visualization and general_code cell exactly once and of
\* no other cell; functions.py holds the function_definitions cells and no
\* other, training.py the model_training cells and no other; a cell of any
\* other category (testing, empty, other, the markdown categories) is in no
\* module, and a category without a cell leaves no label.
C25_CellsEmittedOnceByCategory ==
    GenerateCalled =>
        /\ SameLines(WrittenLines("main.py"),
                     MainFixedLines \o LabelsPresent \o MainLinesOfCells(parsed[1].cells))
        /\ HasCategory("function_definitions") =>
              SameLines(WrittenLines("functions.py"),
                        FunctionsFixedLines
                        \o LinesOfCells(OfCategory("function_definitions"), <<>>))
        /\ HasCategory("model_training") =>
              SameLines(WrittenLines("training.py"),
                        TrainingFixedLines
                        \o LinesOfCells(OfCategory("model_training"), <<>>))
        /\ generated[1].written["config.py"] = ConfigTemplate

\* A function cell, a training cell and a testing cell have been generated:
\* the training line is in main.py once, indented, and in training.py, the
\* function line is only in functions.py, the testing line is nowhere.
C25_Witness ==
    /\ GenerateCalled
    /\ Len(parsed[1].cells) = 3
    /\ parsed[1].cells[1].source = TextDef
    /\ parsed[1].cells[2].source = TextFit
    /\ parsed[1].cells[3].source = TextAssert
    /\ parsed[1].cells[3].category = "testing"
    /\ Count(WrittenLines("main.py"), FourSpaces \o TextFit) = 1
    /\ Count(WrittenLines("training.py"), TextFit) = 1
    /\ Count(WrittenLines("functions.py"), TextDef) = 1
    /\ Count(WrittenLines("main.py"), TextDef) = 0
    /\ Count(WrittenLines("main.py"), FourSpaces \o TextDef) = 0
    /\ \A name \in DOMAIN generated[1].written :
          /\ Count(WrittenLines(name), TextAssert) = 0
          /\ Count(WrittenLines(name), FourSpaces \o TextAssert) = 0

(***************************************************************************)
(* Claims about the stages of convert and the version-control block (Spec). *)
(***************************************************************************)
\* The steps of convert: each stage hands over to the next one, any stage
\* that can raise may end the command, a notebook that is not found returns.
StageSteps ==
    { <<"start", "parsed">>, <<"parsed", "structured">>,
      <<"structured", "generated">>, <<"generated", "analyzed">>,
      <<"analyzed", "configured">>, <<"configured", "versioned">>,
      <<"versioned", "done">>, <<"start", "returned">> }
    \cup {<<stage, "failed">> : stage \in {"start", "parsed", "structured", "generated", "analyzed", "configured"}}

\* The positions at which the command has ended.
Ended == {"returned", "failed", "done"}

\* One step of convert, as C26 describes it.
StepInOrder ==
    /\ pc' # pc => <<pc, pc'>> \in StageSteps
    /\ pc \in Ended => UNCHANGED vars
    /\ files \subseteq files'
    /\ (raised' # "none") <=> (pc' = "failed")
    /\ pc' = "done" => raised' = "none"
    /\ (pc = "parsed" /\ ~run.create_structure) => files' = files
    /\ pc = "structured" => Append(OutputDir(run), "main.py") \in files'
    /\ (pc = "generated" /\ ~run.analyze_deps) => files' = files /\ report' = report
    /\ (pc = "analyzed" /\ ~run.generate_config) => files' = files
    /\ (pc = "configured" /\ ~(run.setup_vcs \/ run.setup_dvc \/ run.setup_ci)) =>
          files' = files
    /\ files' # files => pc \in {"parsed", "structured", "generated", "analyzed", "configured"}
    /\ report' # report => pc = "generated" /\ run.analyze_deps
    /\ generated' # generated => pc = "structured"

\* C26: convert runs its stages in the fixed order parse, optional
\* structure creation, module generation, optional dependency analysis,
\* optional configuration generation, optional version-control setup; an
\* exception raised in a stage ends the command there: no later stage runs,
\* the summary is not reached, and every file written so far stays.
C26_StagesInOrderFailureEndsRun == [][StepInOrder]_vars

\* A run with the structure, the configuration and the version control on
\* and no git executable ended in the version-control stage: the project
\* structure, the modules and the configuration files are in place.
C26_Witness ==
    /\ run.create_structure /\ run.generate_config /\ run.setup_vcs
    /\ ~run.analyze_deps
    /\ run.git = "missing"
    /\ pc = "failed"
    /\ raised = "FileNotFoundError"
    /\ generated # <<>>
    /\ Append(ProjectRoot(run), "requirements.txt") \in files
    /\ Append(OutputDir(run), "main.py") \in files
    /\ ProjectRoot(run) \o <<"config", "project_config.yaml">> \in files
    /\ Append(ProjectRoot(run), ".git") \notin files

\* The paths of the two hook files of a project.
HookFiles(project_path) ==
    {project_path \o <<".git", "hooks", name>> : name \in {"pre-commit", "post-commit"}}

\* The version-control stage of the run has completed.
VcsStageCompleted == pc \in {"versioned", "done"}

\* C27: a hook file is in a project only if its .git directory is; called
\* where .git is absent, setup_git_hooks raises and writes nothing; where
\* .git is present, initialize_git_repo returns True and creates nothing
\* whatever the git executable would do, and setup_git_hooks writes both
\* hooks; convert calls setup_git_hooks after initialize_git_repo returned
\* False as well: a failed `git init` lets the stage end in the exception of
\* setup_git_hooks, a failed `git commit` leaves both hooks written.
C27_HooksOnlyWhereGitDirectoryExists ==
    LET project_root == ProjectRoot(run)
        dot_git == Append(project_root, ".git")
    IN  /\ HookFiles(project_root) \cap files # {} => dot_git \in files
        /\ dot_git \notin files =>
              SetupGitHooks(project_root, files) = Raised("FileNotFoundError", {})
        /\ dot_git \in files =>
              /\ \A git \in GitOutcomes :
                    InitializeGitRepo(project_root, files, git) =
                       [raised |-> "none", created |-> {}, result |-> TRUE]
              /\ SetupGitHooks(project_root, files).raised = "none"
              /\ HookFiles(project_root) \subseteq
                    SetupGitHooks(project_root, files).created
        /\ (VcsStageCompleted /\ run.setup_vcs) =>
              /\ ~(run.git = "init_fails" /\ ~run.git_exists)
              /\ HookFiles(project_root) \subseteq files
        /\ (run.setup_vcs /\ run.git = "init_fails" /\ ~run.git_exists) =>
              /\ dot_git \notin files
              /\ raised = "FileNotFoundError" => pc = "failed" /\ generated # <<>>

\* A run with version control on, no .git directory and a failing
\* `git init` ended in the exception of setup_git_hooks: the modules are
\* written, the project has neither a .git directory nor a hook file.
C27_Witness ==
    /\ run.setup_vcs /\ ~run.git_exists
    /\ run.git = "init_fails"
    /\ pc = "failed"
    /\ raised = "FileNotFoundError"
    /\ generated # <<>>
    /\ Append(ProjectRoot(run), ".git") \notin files
    /\ HookFiles(ProjectRoot(run)) \cap files = {}

=============================================================================
